---- MODULE Spec2Model ----
(***************************************************************************)
(* Sandboxed tool layer of codex-task-executor / codex-review:             *)
(* PathPolicy (requireSafePath, isDeniedPath), SecureOpener (openSecure,   *)
(* unix build), DirectoryCreator (createParentDirs), the ToolSet           *)
(* (toolGlob, toolGrep, toolRead, toolWrite, toolEdit, executeTool) and    *)
(* the dispatch loop executeTask.                                          *)
(*                                                                         *)
(* A string is a sequence of one-character strings; a path is a string.    *)
(* The platform is the unix build (filepath.Separator = "/").              *)
(***************************************************************************)
EXTENDS Integers, Sequences, FiniteSets, TLC

(***************************************************************************)
(* Go strings package                                                      *)
(***************************************************************************)

\* the elements of a sequence
Range(seq) == {seq[i] : i \in 1..Len(seq)}

\* strings.HasPrefix
HasPrefix(s, p) ==
    /\ Len(p) <= Len(s)
    /\ SubSeq(s, 1, Len(p)) = p

\* strings.HasSuffix
HasSuffix(s, p) ==
    /\ Len(p) <= Len(s)
    /\ SubSeq(s, Len(s) - Len(p) + 1, Len(s)) = p

\* sub occurs in s starting at index i (1-based)
MatchAt(s, sub, i) ==
    /\ i >= 1
    /\ i + Len(sub) - 1 <= Len(s)
    /\ SubSeq(s, i, i + Len(sub) - 1) = sub

\* strings.Contains
StringsContains(s, sub) == \E i \in 1..(Len(s) + 1) : MatchAt(s, sub, i)

\* strings.Index, 1-based; 0 when sub does not occur
StringsIndex(s, sub) ==
    IF ~StringsContains(s, sub) THEN 0
    ELSE CHOOSE i \in 1..(Len(s) + 1) :
            MatchAt(s, sub, i) /\ \A j \in 1..(i - 1) : ~MatchAt(s, sub, j)

\* strings.ContainsAny
StringsContainsAny(s, chars) == \E i \in 1..Len(s) : s[i] \in chars

\* strings.Count for a non-empty sub: occurrences counted left to right,
\* the scan resuming after the end of each occurrence (non-overlapping)
RECURSIVE StringsCount(_, _)
StringsCount(s, sub) ==
    IF ~StringsContains(s, sub) THEN 0
    ELSE 1 + StringsCount(SubSeq(s, StringsIndex(s, sub) + Len(sub), Len(s)), sub)

\* s with the n characters from index i on replaced by new
ReplaceAt(s, i, n, new) == SubSeq(s, 1, i - 1) \o new \o SubSeq(s, i + n, Len(s))

\* strings.Replace(s, old, new, 1) for a non-empty old
StringsReplace1(s, old, new) ==
    IF ~StringsContains(s, old) THEN s
    ELSE ReplaceAt(s, StringsIndex(s, old), Len(old), new)

\* strings.Split(s, sep) for a one-character sep
\* the pieces of a text from the pieces of its two halves: the last piece of
\* the first half and the first piece of the second are one piece
SplitMerge(l, r) == SubSeq(l, 1, Len(l) - 1) \o <<l[Len(l)] \o r[1]>> \o Tail(r)

RECURSIVE StringsSplit(_, _)
StringsSplit(s, sep) ==
    IF Len(s) = 0 THEN <<s>>
    ELSE IF Len(s) = 1 THEN (IF s[1] = sep THEN <<<<>>, <<>>>> ELSE <<s>>)
    ELSE SplitMerge(StringsSplit(SubSeq(s, 1, Len(s) \div 2), sep),
                    StringsSplit(SubSeq(s, Len(s) \div 2 + 1, Len(s)), sep))

\* strings.Join(parts, sep) for a one-character sep
RECURSIVE StringsJoin(_, _)
StringsJoin(parts, sep) ==
    IF Len(parts) = 0 THEN <<>>
    ELSE IF Len(parts) = 1 THEN parts[1]
    ELSE StringsJoin(SubSeq(parts, 1, Len(parts) \div 2), sep) \o <<sep>>
         \o StringsJoin(SubSeq(parts, Len(parts) \div 2 + 1, Len(parts)), sep)

\* strings.TrimPrefix
StringsTrimPrefix(s, p) ==
    IF HasPrefix(s, p) THEN SubSeq(s, Len(p) + 1, Len(s)) ELSE s

\* unicode simple folding of the letters the model's paths use ((?i) in denyExtRE)
ToLowerChar(c) ==
    CASE c = "P" -> "p"
      [] c = "E" -> "e"
      [] c = "M" -> "m"
      [] c = "K" -> "k"
      [] c = "Y" -> "y"
      [] c = "C" -> "c"
      [] OTHER -> c

ToLower(s) == [i \in 1..Len(s) |-> ToLowerChar(s[i])]

(***************************************************************************)
(* Go path/filepath package, unix build                                    *)
(***************************************************************************)

\* filepath.ToSlash: replaces filepath.Separator by "/"; the separator of the
\* unix build is "/" itself, so no character changes
FilepathToSlash(path) == [i \in 1..Len(path) |-> IF path[i] = "/" THEN "/" ELSE path[i]]

\* filepath.VolumeName: the unix build has no volumes (volumeNameLen is 0)
FilepathVolumeName(path) == SubSeq(path, 1, 0)

\* filepath.IsAbs, unix build
FilepathIsAbs(path) == HasPrefix(path, <<"/">>)

\* index of the last "/" of path, 0 when there is none
LastSlash(path) ==
    IF "/" \notin Range(path) THEN 0
    ELSE CHOOSE i \in 1..Len(path) :
            path[i] = "/" /\ \A j \in (i + 1)..Len(path) : path[j] # "/"

\* path without its trailing slashes
RECURSIVE StripTrailingSlashes(_)
StripTrailingSlashes(path) ==
    IF Len(path) > 0 /\ path[Len(path)] = "/"
    THEN StripTrailingSlashes(SubSeq(path, 1, Len(path) - 1))
    ELSE path

\* the last element of a path that has no trailing slash; "/" when it is empty
LastElement(p) ==
    IF LastSlash(p) = Len(p) THEN <<"/">> ELSE SubSeq(p, LastSlash(p) + 1, Len(p))

\* filepath.Base
FilepathBase(path) ==
    IF Len(path) = 0 THEN <<".">> ELSE LastElement(StripTrailingSlashes(path))

\* the component stack of filepath.Clean: "" and "." are dropped, ".." removes
\* the component before it, and is kept only at the front of an unrooted path
RECURSIVE CleanParts(_, _, _)
CleanParts(parts, out, rooted) ==
    IF Len(parts) = 0 THEN out
    ELSE IF Head(parts) = <<>> \/ Head(parts) = <<".">>
    THEN CleanParts(Tail(parts), out, rooted)
    ELSE IF Head(parts) # <<".", ".">>
    THEN CleanParts(Tail(parts), Append(out, Head(parts)), rooted)
    ELSE IF Len(out) > 0 /\ out[Len(out)] # <<".", ".">>
    THEN CleanParts(Tail(parts), SubSeq(out, 1, Len(out) - 1), rooted)
    ELSE CleanParts(Tail(parts), IF rooted THEN out ELSE Append(out, Head(parts)), rooted)

\* the cleaned path from its component stack
CleanRender(rooted, body) ==
    IF rooted THEN <<"/">> \o body
    ELSE IF Len(body) = 0 THEN <<".">>
    ELSE body

\* filepath.Clean
FilepathClean(path) ==
    CleanRender(HasPrefix(path, <<"/">>),
                StringsJoin(CleanParts(StringsSplit(path, "/"), <<>>,
                                       HasPrefix(path, <<"/">>)), "/"))

\* filepath.Dir
FilepathDir(path) == FilepathClean(SubSeq(path, 1, LastSlash(path)))

\* filepath.Join of a directory path and a name
FilepathJoin(dir, name) ==
    FilepathClean(IF Len(dir) = 0 THEN name ELSE dir \o <<"/">> \o name)

(***************************************************************************)
(* PathPolicy                                                              *)
(***************************************************************************)

\* the alternatives of denyBasenamesRE: ^X$ alone, or ^X$ and ^X\..+
DenyExactBasenames ==
    { <<"k","n","o","w","n","_","h","o","s","t","s">>,
      <<"c","o","n","f","i","g">>,
      <<"c","r","e","d","e","n","t","i","a","l","s">>,
      <<".","n","p","m","r","c">>,
      <<".","p","y","p","i","r","c">>,
      <<".","n","e","t","r","c">> }

DenyStemBasenames ==
    { <<".","e","n","v">>,
      <<"i","d","_","r","s","a">>,
      <<"s","e","c","r","e","t","s">> }

\* the suffixes of denyExtRE
DenyExtensions ==
    { <<".","p","e","m">>, <<".","k","e","y">>, <<".","p","1","2">>,
      <<".","p","f","x">>, <<".","c","e","r">>, <<".","c","r","t">>,
      <<".","d","e","r">>, <<".","k","d","b","x">>,
      <<".","t","f","s","t","a","t","e">>, <<".","t","f","v","a","r","s">> }

\* denyBasenamesRE.MatchString: ^X$ for every listed name, ^X\..+ for the
\* stems (one more character, not a newline, after the dot; no end anchor)
DenyBasenamesMatch(base) ==
    \/ base \in DenyExactBasenames
    \/ base \in DenyStemBasenames
    \/ \E stem \in DenyStemBasenames :
          /\ HasPrefix(base, stem \o <<".">>)
          /\ Len(base) > Len(stem) + 1
          /\ base[Len(stem) + 2] # "\n"

\* denyExtRE.MatchString: (?i) and an end anchor
DenyExtMatch(path) == \E ext \in DenyExtensions : HasSuffix(ToLower(path), ext)

\* denyPathRE.MatchString: (^|/)\.git(/|$) or \.docker/config\.json$
DenyPathMatch(path) ==
    \/ \E i \in 1..Len(path) :
          /\ MatchAt(path, <<".","g","i","t">>, i)
          /\ (i = 1 \/ path[i - 1] = "/")
          /\ (i + 4 > Len(path) \/ path[i + 4] = "/")
    \/ HasSuffix(path, <<".","d","o","c","k","e","r","/","c","o","n","f","i","g",
                         ".","j","s","o","n">>)

\* isDeniedPath
isDeniedPath(relPath) ==
    \/ DenyBasenamesMatch(FilepathBase(FilepathToSlash(relPath)))
    \/ DenyExtMatch(FilepathToSlash(relPath))
    \/ DenyPathMatch(FilepathToSlash(relPath))

\* errors of requireSafePath; ErrNone is the nil error
ErrNone == "nil"

\* requireSafePath without the test of the ".." segments (a mutation)
requireSafePathNoDotDot(path) ==
    IF path = <<>> \/ StringsContainsAny(path, {"\n", "\r"}) THEN "invalid path"
    ELSE IF FilepathVolumeName(path) # <<>> THEN "volume paths not allowed"
    ELSE IF FilepathIsAbs(path) THEN "absolute paths not allowed"
    ELSE IF HasPrefix(path, <<"~">>) THEN "home paths not allowed"
    ELSE ErrNone

\* requireSafePath: the error it returns
requireSafePath(path) ==
    IF path = <<>> \/ StringsContainsAny(path, {"\n", "\r"}) THEN "invalid path"
    ELSE IF FilepathVolumeName(path) # <<>> THEN "volume paths not allowed"
    ELSE IF FilepathIsAbs(path) THEN "absolute paths not allowed"
    ELSE IF HasPrefix(path, <<"~">>) THEN "home paths not allowed"
    ELSE IF <<".", ".">> \in Range(StringsSplit(FilepathToSlash(path), "/"))
    THEN "parent traversal not allowed"
    ELSE ErrNone

(***************************************************************************)
(* The filesystem the system calls act on.  A node is a directory (with    *)
(* its entries, a function from names to nodes), a regular file (with its  *)
(* bytes), a symbolic link (with the node its target resolves to) or free. *)
(* Root is the repository root; OutDir is a directory that is not below    *)
(* it.                                                                     *)
(***************************************************************************)

\* bound: nodes that creat and mkdir may allocate
MaxNew == 3

NoNode == "none"
Root == "root"
NodeA == "dir a"
NodeF == "file f"
NodeAF == "file a/f"
NodeEnv == "file .env"
NodeGit == "dir .git"
NodeGitC == "file .git/c"
NodeAPem == "file a/k.PEM"
OutDir == "outside dir"
OutFile == "outside file"
OutSub == "outside dir d"
OutSubF == "outside file d/f"
LinkOutDir == "link l"
LinkOutFile == "link s"
LinkInFile == "link i"

\* the nodes creat and mkdir allocate, in this order
NewNodes == <<"new 1", "new 2", "new 3", "new 4">>

Node ==
    {Root, NodeA, NodeF, NodeAF, NodeEnv, NodeGit, NodeGitC, NodeAPem, OutDir,
     OutFile, OutSub, OutSubF, LinkOutDir, LinkOutFile, LinkInFile}
    \cup {NewNodes[i] : i \in 1..MaxNew}
LinkNodes == {LinkOutDir, LinkOutFile, LinkInFile}

\* the node a symbolic link resolves to
LinkTarget(n) ==
    CASE n = LinkOutDir -> OutDir
      [] n = LinkOutFile -> OutFile
      [] n = LinkInFile -> NodeF
      [] OTHER -> NoNode

\* names of the initial tree
NmA == <<"a">>
NmB == <<"b">>
NmD == <<"d">>
NmF == <<"f">>
NmN == <<"n">>
NmL == <<"l">>
NmS == <<"s">>
NmI == <<"i">>
NmEnv == <<".", "e", "n", "v">>
NmGit == <<".", "g", "i", "t">>
NmC == <<"c">>
NmPem == <<"k", ".", "P", "E", "M">>

NoEntries == [nm \in {} |-> NoNode]
FreeNode == [k |-> "free", e |-> NoEntries, d |-> <<>>]
DirOf(entries) == [k |-> "dir", e |-> entries, d |-> <<>>]
FileOf(bytes) == [k |-> "file", e |-> NoEntries, d |-> bytes]
LinkNode == [k |-> "link", e |-> NoEntries, d |-> <<>>]
\* a unix socket: lstat and stat succeed, open fails with ENXIO
SockNode == [k |-> "sock", e |-> NoEntries, d |-> <<>>]

\* the bytes of the files of the initial tree
DataF == <<"a", "b", "\n", "a">>
DataAF == <<"a", "a", "a">>
DataSecret == <<"b">>

\* the initial tree: f, a/f, a/k.PEM, .env, .git/c, and the links l (to the
\* outside directory), s (to the outside file), i (to f); outside of it a
\* directory with f and d/f
InitFS ==
    [n \in Node |->
        CASE n = Root -> DirOf((NmA :> NodeA) @@ (NmF :> NodeF) @@ (NmEnv :> NodeEnv)
                               @@ (NmGit :> NodeGit) @@ (NmL :> LinkOutDir)
                               @@ (NmS :> LinkOutFile) @@ (NmI :> LinkInFile))
          [] n = NodeA -> DirOf((NmF :> NodeAF) @@ (NmPem :> NodeAPem))
          [] n = NodeF -> FileOf(DataF)
          [] n = NodeAF -> FileOf(DataAF)
          [] n = NodeEnv -> FileOf(DataSecret)
          [] n = NodeGit -> DirOf(NmC :> NodeGitC)
          [] n = NodeGitC -> FileOf(DataSecret)
          [] n = NodeAPem -> FileOf(DataSecret)
          [] n = OutDir -> DirOf((NmF :> OutFile) @@ (NmD :> OutSub))
          [] n = OutFile -> FileOf(DataSecret)
          [] n = OutSub -> DirOf(NmF :> OutSubF)
          [] n = OutSubF -> FileOf(DataSecret)
          [] n \in LinkNodes -> LinkNode
          [] OTHER -> FreeNode]

\* the entry name of directory d, NoNode when there is none
Lookup(fs, d, name) ==
    IF d \in Node /\ fs[d].k = "dir" /\ name \in DOMAIN fs[d].e THEN fs[d].e[name]
    ELSE NoNode

\* the first free node, NoNode when the pool is used up
AllocNode(fs) ==
    IF \A i \in 1..MaxNew : fs[NewNodes[i]].k # "free" THEN NoNode
    ELSE NewNodes[CHOOSE i \in 1..MaxNew :
                     /\ fs[NewNodes[i]].k = "free"
                     /\ \A j \in 1..(i - 1) : fs[NewNodes[j]].k # "free"]

\* fs with entry name of directory d set to node n holding v
AddEntry(fs, d, name, n, v) ==
    [fs EXCEPT ![n] = v, ![d] = DirOf((name :> n) @@ fs[d].e)]

\* the nodes the entries of the directories of seen lead to
Entries(fs, seen) ==
    UNION {{fs[d].e[nm] : nm \in DOMAIN fs[d].e} : d \in {m \in seen : fs[m].k = "dir"}}

\* nodes reached from seen through directory entries alone, links not followed
RECURSIVE RealBelow(_, _, _)
RealBelow(fs, seen, k) ==
    IF k = 0 \/ Entries(fs, seen) \subseteq seen THEN seen
    ELSE RealBelow(fs, seen \cup Entries(fs, seen), k - 1)

\* the node is the root or lies below it: its resolved path has the root's
\* path as prefix
InsideRoot(fs, n) == n \in RealBelow(fs, {Root}, Cardinality(Node))

\* the node lies in the directory tree outside of the repository
OutsideRoot(fs, n) == n \in RealBelow(fs, {OutDir}, Cardinality(Node))

(***************************************************************************)
(* System calls.  Each returns the filesystem after the call, the node of  *)
(* the descriptor it opened (NoNode on error), the errno, and whether a    *)
(* symbolic link was followed to reach the node.                           *)
(***************************************************************************)

SysOk == "ok"
Failed(fs, errno) == [fs |-> fs, fd |-> NoNode, err |-> errno, via |-> "none"]
Opened(fs, n, via) == [fs |-> fs, fd |-> n, err |-> SysOk, via |-> via]

\* open of an existing node n that is not a link, under flags
OpenNode(fs, n, flags, via) ==
    IF fs[n].k = "dir"
    THEN IF "O_WRONLY" \in flags THEN Failed(fs, "EISDIR") ELSE Opened(fs, n, via)
    ELSE IF fs[n].k = "file"
    THEN IF "O_DIRECTORY" \in flags THEN Failed(fs, "ENOTDIR")
         ELSE IF {"O_WRONLY", "O_TRUNC"} \subseteq flags
         THEN Opened([fs EXCEPT ![n] = FileOf(<<>>)], n, via)
         ELSE Opened(fs, n, via)
    ELSE IF fs[n].k = "sock" THEN Failed(fs, "ENXIO")
    ELSE Failed(fs, "ENOENT")

\* open of the entry n a name resolved to: a link is followed unless
\* O_NOFOLLOW is set
OpenEntry(fs, n, flags) ==
    IF fs[n].k = "link"
    THEN IF "O_NOFOLLOW" \in flags THEN Failed(fs, "ELOOP")
         ELSE OpenNode(fs, LinkTarget(n), flags, "link")
    ELSE OpenNode(fs, n, flags, "real")

\* creat of name in directory d on the free node n
Creat(fs, d, name, n) ==
    IF n = NoNode THEN Failed(fs, "ENOSPC")
    ELSE Opened(AddEntry(fs, d, name, n, FileOf(<<>>)), n, "real")

\* unix.Openat(dirfd, name, flags): the name is looked up in the directory of
\* the descriptor, wherever that directory now is in the tree
Openat(fs, d, name, flags) ==
    IF fs[d].k # "dir" THEN Failed(fs, "ENOTDIR")
    ELSE IF Lookup(fs, d, name) # NoNode THEN OpenEntry(fs, Lookup(fs, d, name), flags)
    ELSE IF "O_CREAT" \in flags THEN Creat(fs, d, name, AllocNode(fs))
    ELSE Failed(fs, "ENOENT")

\* mkdir of name in directory d on the free node n
Mkdir(fs, d, name, n) ==
    IF n = NoNode THEN Failed(fs, "ENOSPC")
    ELSE Opened(AddEntry(fs, d, name, n, DirOf(NoEntries)), NoNode, "real")

\* unix.Mkdirat(dirfd, name, 0755)
Mkdirat(fs, d, name) ==
    IF fs[d].k # "dir" THEN Failed(fs, "ENOTDIR")
    ELSE IF Lookup(fs, d, name) # NoNode THEN Failed(fs, "EEXIST")
    ELSE Mkdir(fs, d, name, AllocNode(fs))

(***************************************************************************)
(* SecureOpener and DirectoryCreator, unix build                           *)
(***************************************************************************)

DirFlags == {"O_RDONLY", "O_DIRECTORY", "O_NOFOLLOW", "O_CLOEXEC"}
ReadFlags == {"O_RDONLY"}
WriteFlagsNoTrunc == {"O_WRONLY", "O_CREAT"}
WriteFlags == {"O_WRONLY", "O_CREAT", "O_TRUNC"}
RewriteFlags == {"O_WRONLY", "O_TRUNC"}

\* the components openSecure walks: strings.Split(filepath.ToSlash(cleanPath), "/")
openSecureParts(cleanPath) == StringsSplit(FilepathToSlash(cleanPath), "/")

\* the tests of openSecure on the cleaned path and its components
openSecureClean(cleanPath, parts) ==
    IF HasPrefix(cleanPath, <<".", ".">>)
    THEN [err |-> "path escapes repository", parts |-> <<>>]
    ELSE IF Len(parts) = 0 \/ (Len(parts) = 1 /\ parts[1] = <<".">>)
    THEN [err |-> "invalid path", parts |-> <<>>]
    ELSE [err |-> ErrNone, parts |-> parts]

\* openSecure up to its loop: the error it returns, or ErrNone and the
\* components the loop walks
openSecureEntry(relPath) ==
    IF requireSafePath(relPath) # ErrNone
    THEN [err |-> requireSafePath(relPath), parts |-> <<>>]
    ELSE openSecureClean(FilepathClean(relPath), openSecureParts(FilepathClean(relPath)))

\* the flags of the openat of an intermediate component
openSecureDirFlags == DirFlags

\* the flags of the openat of the final component with O_NOFOLLOW left out (a
\* mutation)
openSecureFinalFlagsFollow(flags) == flags \cup {"O_CLOEXEC"}

\* the flags of the openat of the final component
openSecureFinalFlags(flags) == flags \cup {"O_NOFOLLOW", "O_CLOEXEC"}

\* the outcome of an iteration from the result r of its openat under flags
StepOf(r, kind, flags) ==
    r @@ [st |-> IF r.err = SysOk THEN kind ELSE "error", fl |-> flags]

\* one iteration of the loop of openSecure, on component i of parts with the
\* directory descriptor cur: "skip" (continue), "dir" (descended, fd is the
\* new currentFD), "file" (the final open succeeded, fd is returned) or
\* "error"
openSecureStep(fs, cur, parts, i, flags) ==
    IF parts[i] = <<>> \/ parts[i] = <<".">>
    THEN [Failed(fs, SysOk) EXCEPT !.fd = cur] @@ [st |-> "skip", fl |-> {}]
    ELSE IF parts[i] = <<".", ".">>
    THEN Failed(fs, "parent traversal not allowed") @@ [st |-> "error", fl |-> {}]
    ELSE IF i = Len(parts)
    THEN StepOf(Openat(fs, cur, parts[i], openSecureFinalFlags(flags)), "file",
                openSecureFinalFlags(flags))
    ELSE StepOf(Openat(fs, cur, parts[i], openSecureDirFlags), "dir", openSecureDirFlags)

RECURSIVE openSecureLoop(_, _, _, _, _)

\* the loop of openSecure after the iteration on component i gave r
openSecureNext(r, parts, i, flags) ==
    IF r.st \in {"file", "error"}
    THEN [fs |-> r.fs, fd |-> r.fd, err |-> r.err, via |-> r.via]
    ELSE openSecureLoop(r.fs, r.fd, parts, i + 1, flags)

\* the loop of openSecure from component i on
openSecureLoop(fs, cur, parts, i, flags) ==
    IF i > Len(parts)
    THEN Failed(fs, "unexpected: loop completed without opening file")
    ELSE openSecureNext(openSecureStep(fs, cur, parts, i, flags), parts, i, flags)

\* openSecure from the outcome of its entry tests
openSecureFrom(fs, entry, flags) ==
    IF entry.err # ErrNone THEN Failed(fs, entry.err)
    ELSE openSecureLoop(fs, Root, entry.parts, 1, flags)

\* openSecure(repoRoot, relPath, flags, perm), run without interleaving
openSecure(fs, relPath, flags) == openSecureFrom(fs, openSecureEntry(relPath), flags)

\* createParentDirs after mkdirat gave m: the new directory is opened
createParentDirsMade(cur, part, m) ==
    IF m.err # SysOk THEN Failed(m.fs, "mkdirat")
    ELSE IF Openat(m.fs, cur, part, DirFlags).err # SysOk
    THEN Failed(m.fs, "openat after mkdir")
    ELSE Openat(m.fs, cur, part, DirFlags)

\* createParentDirs giving up on a missing directory, without mkdirat (a
\* mutation)
createParentDirsOpenedNoMkdir(fs, cur, part, o) ==
    IF o.err = SysOk THEN o ELSE Failed(fs, "mkdirat")

\* createParentDirs after the openat of a component gave o: an existing
\* directory is entered, otherwise the directory is made with mkdirat
createParentDirsOpened(fs, cur, part, o) ==
    IF o.err = SysOk THEN o ELSE createParentDirsMade(cur, part, Mkdirat(fs, cur, part))

\* one iteration of the loop of createParentDirs
createParentDirsStep(fs, cur, part) ==
    IF part = <<>> \/ part = <<".">>
    THEN [Failed(fs, SysOk) EXCEPT !.fd = cur]
    ELSE IF part = <<".", ".">> THEN Failed(fs, "parent traversal in mkdir")
    ELSE createParentDirsOpened(fs, cur, part, Openat(fs, cur, part, DirFlags))

RECURSIVE createParentDirsLoop(_, _, _, _)

\* the loop of createParentDirs after the iteration on component i gave r
createParentDirsNext(r, parts, i) ==
    IF r.err # SysOk THEN r ELSE createParentDirsLoop(r.fs, r.fd, parts, i + 1)

\* the loop of createParentDirs from component i on
createParentDirsLoop(fs, cur, parts, i) ==
    IF i > Len(parts) THEN [Failed(fs, SysOk) EXCEPT !.fd = cur]
    ELSE createParentDirsNext(createParentDirsStep(fs, cur, parts[i]), parts, i)

\* createParentDirs from filepath.Dir(relPath)
createParentDirsOf(fs, parent) ==
    IF parent = <<".">> \/ parent = <<>> THEN [Failed(fs, SysOk) EXCEPT !.fd = Root]
    ELSE createParentDirsLoop(fs, Root, StringsSplit(FilepathToSlash(parent), "/"), 1)

\* createParentDirs(repoRoot, relPath), run without interleaving
createParentDirs(fs, relPath) == createParentDirsOf(fs, FilepathDir(relPath))

(***************************************************************************)
(* ToolSet.  A tool returns the filesystem after the call, its ToolResult  *)
(* (tool is the prefix of the error message of a failure), the kinds of    *)
(* system call it may have issued (sys) and the files and directories      *)
(* whose bytes or listing it read (rd).                                    *)
(***************************************************************************)

defaultMaxResults == 200
defaultMaxReadLines == 400

\* ToolResult{OK: false, Error: ...}
Fail(tool, error) ==
    [ok |-> FALSE, tool |-> tool, error |-> error, path |-> <<>>, content |-> <<>>,
     results |-> <<>>, count |-> 0, bytes |-> 0]

\* ToolResult{OK: true, ...}
Success(tool, path, content, results, bytes) ==
    [ok |-> TRUE, tool |-> tool, error |-> "", path |-> path, content |-> content,
     results |-> results, count |-> Len(results), bytes |-> bytes]

Out(fs, res, sys, rd) == [fs |-> fs, res |-> res, sys |-> sys, rd |-> rd]

\* the node n was read under the name path
ReadOf(path, n) == [path |-> path, node |-> n]

\* a line without its trailing "\r"
DropCR(line) ==
    IF Len(line) > 0 /\ line[Len(line)] = "\r" THEN SubSeq(line, 1, Len(line) - 1)
    ELSE line

\* no empty last line is yielded after a final "\n"
DropLastEmpty(cut) ==
    IF cut[Len(cut)] = <<>> THEN SubSeq(cut, 1, Len(cut) - 1) ELSE cut

\* scanner.Buffer(make([]byte, 64*1024), 1024*1024): the size of the buffer a
\* line with its "\n" has to fit in
maxScanTokenSize == 1048576

\* one character of the model that stands for a run of maxScanTokenSize + 1
\* bytes "x": files of megabytes are not written out byte by byte
Run == "x..x"
RunBytes == maxScanTokenSize + 1

\* the number of bytes of s
ByteLen(s) == Len(s) + (RunBytes - 1) * Cardinality({i \in 1..Len(s) : s[i] = Run})

\* the lines of cut the buffer of the scanner cannot hold
TooLong(cut) == {i \in 1..Len(cut) : ByteLen(cut[i]) >= maxScanTokenSize}

\* the first element of the non-empty set of numbers
First(set) == CHOOSE i \in set : \A j \in set : i <= j

\* the scanner ends with bufio.ErrTooLong: the text has a line its buffer
\* cannot hold
ScanStops(bytes) == TooLong(DropLastEmpty(StringsSplit(bytes, "\n"))) # {}

\* the lines bufio.Scanner yields with ScanLines: the text is cut at every
\* "\n", a trailing "\r" of a line is dropped; the scanner stops before the
\* first line its buffer cannot hold
ScanLines(bytes) ==
    LET cut == DropLastEmpty(StringsSplit(bytes, "\n"))
    IN [i \in 1..(IF TooLong(cut) = {} THEN Len(cut) ELSE First(TooLong(cut)) - 1)
           |-> DropCR(cut[i])]

\* the decimal digits of n >= 0
DigitChar(d) == <<"0", "1", "2", "3", "4", "5", "6", "7", "8", "9">>[d + 1]

RECURSIVE Digits(_)
Digits(n) == IF n < 10 THEN <<DigitChar(n)>> ELSE Digits(n \div 10) \o <<DigitChar(n % 10)>>

\* fmt.Sprintf("%06d", n) for n >= 0
RECURSIVE PadZero(_, _)
PadZero(ds, width) == IF Len(ds) >= width THEN ds ELSE PadZero(<<"0">> \o ds, width)

\* fmt.Sprintf("%06d\t%s", lineNum, text)
NumberedLine(lineNum, text) == PadZero(Digits(lineNum), 6) \o <<"\t">> \o text

\* the range of toolRead without the last clamp to maxLines (a mutation)
ReadRangeNoClamp(startLine, endLine, maxLines) ==
    LET m == IF maxLines <= 0 \/ maxLines > defaultMaxReadLines
             THEN defaultMaxReadLines ELSE maxLines
        s == IF startLine < 1 THEN 1 ELSE startLine
        e1 == IF endLine <= 0 THEN s + m - 1 ELSE endLine
        e2 == IF e1 < s THEN s ELSE e1
    IN [start |-> s, end |-> e2]

\* the range of toolRead with end_line below start_line left as it is (a
\* mutation)
ReadRangeEndBelowStart(startLine, endLine, maxLines) ==
    LET m == IF maxLines <= 0 \/ maxLines > defaultMaxReadLines
             THEN defaultMaxReadLines ELSE maxLines
        s == IF startLine < 1 THEN 1 ELSE startLine
        e1 == IF endLine <= 0 THEN s + m - 1 ELSE endLine
        e3 == IF e1 - s + 1 > m THEN s + m - 1 ELSE e1
    IN [start |-> s, end |-> e3]

\* the range toolRead reads, from its three integer arguments
ReadRange(startLine, endLine, maxLines) ==
    LET m == IF maxLines <= 0 \/ maxLines > defaultMaxReadLines
             THEN defaultMaxReadLines ELSE maxLines
        s == IF startLine < 1 THEN 1 ELSE startLine
        e1 == IF endLine <= 0 THEN s + m - 1 ELSE endLine
        e2 == IF e1 < s THEN s ELSE e1
        e3 == IF e2 - s + 1 > m THEN s + m - 1 ELSE e2
    IN [start |-> s, end |-> e3]

\* the lines start..end of all, numbered
ReadLines(all, start, end) ==
    [i \in 1..(IF end >= start THEN end - start + 1 ELSE 0)
        |-> NumberedLine(start + i - 1, all[start + i - 1])]

\* the scan loop of toolRead over the lines all
ReadContent(all, r) ==
    StringsJoin(ReadLines(all, r.start, IF r.end < Len(all) THEN r.end ELSE Len(all)), "\n")

\* toolRead after openSecure gave o
toolReadOpened(fs, path, o, r) ==
    IF o.err # SysOk THEN Out(fs, Fail("Read", o.err), {"open"}, {})
    ELSE IF fs[o.fd].k # "file"
    THEN Out(fs, Fail("Read", "not a regular file"), {"open", "fstat"}, {})
    ELSE IF ScanStops(fs[o.fd].d) /\ Len(ScanLines(fs[o.fd].d)) <= r.end
    THEN Out(fs, Fail("Read", "bufio.Scanner: token too long"), {"open", "fstat", "read"},
             {ReadOf(path, o.fd)})
    ELSE Out(fs, Success("Read", path, ReadContent(ScanLines(fs[o.fd].d), r), <<>>, 0),
             {"open", "fstat", "read"}, {ReadOf(path, o.fd)})

\* toolRead
toolRead(fs, path, startLine, endLine, maxLines) ==
    IF requireSafePath(path) # ErrNone
    THEN Out(fs, Fail("Read", requireSafePath(path)), {}, {})
    ELSE IF isDeniedPath(path) THEN Out(fs, Fail("Read", "access denied"), {}, {})
    ELSE toolReadOpened(fs, path, openSecure(fs, path, ReadFlags),
                        ReadRange(startLine, endLine, maxLines))

\* file.WriteString(s) on a descriptor just opened: the bytes of s replace the
\* bytes at offsets 0..len(s)-1 and what the file holds beyond them stays
WriteString0(old, s) == s \o SubSeq(old, Len(s) + 1, Len(old))

\* toolWrite after openSecure gave o
toolWriteOpened(path, content, o) ==
    IF o.err # SysOk THEN Out(o.fs, Fail("Write", o.err), {"open", "mkdirat"}, {})
    ELSE Out([o.fs EXCEPT ![o.fd] = FileOf(WriteString0(o.fs[o.fd].d, content))],
             Success("Write", path, <<>>, <<>>, Len(content)),
             {"open", "mkdirat", "write"}, {})

\* toolWrite after createParentDirs gave m
toolWriteMade(path, content, m) ==
    IF m.err # SysOk THEN Out(m.fs, Fail("Write", "mkdir failed"), {"open", "mkdirat"}, {})
    ELSE toolWriteOpened(path, content, openSecure(m.fs, path, WriteFlags))

\* toolWrite
toolWrite(fs, path, content) ==
    IF requireSafePath(path) # ErrNone
    THEN Out(fs, Fail("Write", requireSafePath(path)), {}, {})
    ELSE IF isDeniedPath(path) THEN Out(fs, Fail("Write", "access denied"), {}, {})
    ELSE toolWriteMade(path, content, createParentDirs(fs, path))

\* the test of toolEdit on the count of old_string with its bound one too
\* high (a mutation)
EditNotUniqueAbove2(count) == count > 2

\* the test of toolEdit on the count of old_string
EditNotUnique(count) == count > 1

\* toolEdit whose refused second open has truncated the file it read (a
\* mutation)
toolEditWrittenTruncates(path, rd, newContent, w) ==
    IF w.err # SysOk
    THEN Out([n \in DOMAIN w.fs |-> IF n \in {r.node : r \in rd} THEN FileOf(<<>>) ELSE w.fs[n]],
             Fail("Edit", "open for write failed"), {"open", "fstat", "read"}, rd)
    ELSE Out([w.fs EXCEPT ![w.fd] = FileOf(WriteString0(w.fs[w.fd].d, newContent))],
             Success("Edit", path, <<>>, <<>>, 0), {"open", "fstat", "read", "write"}, rd)

\* toolEdit after the second openSecure gave w
toolEditWritten(path, rd, newContent, w) ==
    IF w.err # SysOk
    THEN Out(w.fs, Fail("Edit", "open for write failed"), {"open", "fstat", "read"}, rd)
    ELSE Out([w.fs EXCEPT ![w.fd] = FileOf(WriteString0(w.fs[w.fd].d, newContent))],
             Success("Edit", path, <<>>, <<>>, 0), {"open", "fstat", "read", "write"}, rd)

\* toolEdit after io.ReadAll gave contentStr
toolEditContent(fs, path, oldString, newString, rd, contentStr) ==
    IF ~StringsContains(contentStr, oldString)
    THEN Out(fs, Fail("Edit", "old_string not found in file"), {"open", "fstat", "read"}, rd)
    ELSE IF EditNotUnique(StringsCount(contentStr, oldString))
    THEN Out(fs, Fail("Edit", "old_string appears N times (must be unique)"),
             {"open", "fstat", "read"}, rd)
    ELSE toolEditWritten(path, rd, StringsReplace1(contentStr, oldString, newString),
                         openSecure(fs, path, RewriteFlags))

\* toolEdit after the first openSecure gave o
toolEditOpened(fs, path, oldString, newString, o) ==
    IF o.err # SysOk THEN Out(fs, Fail("Edit", o.err), {"open"}, {})
    ELSE IF fs[o.fd].k # "file"
    THEN Out(fs, Fail("Edit", "not a regular file"), {"open", "fstat"}, {})
    ELSE toolEditContent(fs, path, oldString, newString, {ReadOf(path, o.fd)}, fs[o.fd].d)

\* toolEdit
toolEdit(fs, path, oldString, newString) ==
    IF requireSafePath(path) # ErrNone
    THEN Out(fs, Fail("Edit", requireSafePath(path)), {}, {})
    ELSE IF isDeniedPath(path) THEN Out(fs, Fail("Edit", "access denied"), {}, {})
    ELSE IF oldString = <<>> THEN Out(fs, Fail("Edit", "old_string must be non-empty"), {}, {})
    ELSE toolEditOpened(fs, path, oldString, newString, openSecure(fs, path, ReadFlags))

(***************************************************************************)
(* Path resolution by name (os.Stat, os.Lstat, filepath.EvalSymlinks),     *)
(* filepath.Match, filepath.Glob and filepath.Walk                         *)
(***************************************************************************)

\* the characters of the model's names and patterns in byte order
ByteOrder ==
    <<"\n", "\r", "*", ".", "/", "0", "1", "2", "3", "4", "5", "6", "7", "8", "9", ":",
      "?", "C", "E", "K", "M", "P", "Y", "\\", "_", "a", "b", "c", "d", "e", "f", "g", "h",
      "i", "j", "k", "l", "m", "n", "o", "p", "q", "r", "s", "t", "u", "v", "w", "x",
      "y", "z", "~">>

ByteRank(c) == CHOOSE i \in 1..Len(ByteOrder) : ByteOrder[i] = c

\* a < b as Go compares strings
RECURSIVE StringLess(_, _)
StringLess(a, b) ==
    IF Len(b) = 0 THEN FALSE
    ELSE IF Len(a) = 0 THEN TRUE
    ELSE IF a[1] = b[1] THEN StringLess(Tail(a), Tail(b))
    ELSE ByteRank(a[1]) < ByteRank(b[1])

\* the least of a non-empty set of names
LeastString(names) == CHOOSE n \in names : \A m \in names \ {n} : StringLess(n, m)

\* sort.Strings of a set of names
RECURSIVE SortStrings(_)
SortStrings(names) ==
    IF names = {} THEN <<>>
    ELSE <<LeastString(names)>> \o SortStrings(names \ {LeastString(names)})

\* the node an entry n stands for when a path is resolved through it: the
\* target of a link that is followed, the entry itself otherwise
Followed(fs, n, follow) ==
    IF n # NoNode /\ fs[n].k = "link" /\ follow THEN LinkTarget(n) ELSE n

RECURSIVE ResolveFrom(_, _, _, _, _)

\* the resolution of parts[i..] after component i led to node m
ResolveNext(fs, m, parts, i, followLast) ==
    IF m = NoNode THEN NoNode ELSE ResolveFrom(fs, m, parts, i + 1, followLast)

\* the node parts[i..] resolves to from node cur as the kernel resolves a
\* path: "" and "." stay, a link is followed unless it is the last component
\* and followLast is false, and every component but the last is a directory
ResolveFrom(fs, cur, parts, i, followLast) ==
    IF i > Len(parts) THEN cur
    ELSE IF fs[cur].k # "dir" THEN NoNode
    ELSE IF parts[i] = <<>> \/ parts[i] = <<".">>
    THEN ResolveFrom(fs, cur, parts, i + 1, followLast)
    ELSE ResolveNext(fs, Followed(fs, Lookup(fs, cur, parts[i]),
                                  i < Len(parts) \/ followLast),
                     parts, i, followLast)

\* os.Stat(path) with the repository root as working directory: the node, NoNode
\* on error
OsStat(fs, path) == ResolveFrom(fs, Root, StringsSplit(path, "/"), 1, TRUE)

\* os.Lstat(path) with the repository root as working directory
OsLstat(fs, path) == ResolveFrom(fs, Root, StringsSplit(path, "/"), 1, FALSE)

\* filepath.EvalSymlinks(filepath.Join(repoRoot, relPath)): the node the joined,
\* cleaned path resolves to with every link followed
EvalSymlinks(fs, relPath) == OsStat(fs, FilepathClean(relPath))

\* filepath.Match for patterns of "*", "?" and literal characters
RECURSIVE FilepathMatch(_, _)
FilepathMatch(pattern, name) ==
    IF Len(pattern) = 0 THEN Len(name) = 0
    ELSE IF pattern[1] = "*"
    THEN \/ FilepathMatch(Tail(pattern), name)
         \/ /\ Len(name) > 0
            /\ name[1] # "/"
            /\ FilepathMatch(pattern, Tail(name))
    ELSE IF Len(name) = 0 THEN FALSE
    ELSE IF pattern[1] = "?" THEN name[1] # "/" /\ FilepathMatch(Tail(pattern), Tail(name))
    ELSE pattern[1] = name[1] /\ FilepathMatch(Tail(pattern), Tail(name))

\* hasMeta of path/filepath
HasMeta(path) == StringsContainsAny(path, {"*", "?", "[", "\\"})

\* the sorted names joined to dir
JoinAll(dir, names) == [i \in 1..Len(names) |-> FilepathJoin(dir, names[i])]

\* glob(dir, pattern, matches) of path/filepath after os.Stat(dir) gave d: the
\* names of the directory that match, sorted, each joined to dir
GlobNames(fs, dir, d, pattern) ==
    IF d = NoNode \/ fs[d].k # "dir" THEN <<>>
    ELSE JoinAll(dir, SortStrings({nm \in DOMAIN fs[d].e : FilepathMatch(pattern, nm)}))

\* glob(dir, pattern, matches) of path/filepath
GlobDir(fs, dir, pattern) == GlobNames(fs, dir, OsStat(fs, dir), pattern)

\* cleanGlobPath of path/filepath
CleanGlobPath(dir) ==
    IF dir = <<>> THEN <<".">>
    ELSE IF dir = <<"/">> THEN dir
    ELSE SubSeq(dir, 1, Len(dir) - 1)

RECURSIVE Concat(_)
Concat(seqs) == IF Len(seqs) = 0 THEN <<>> ELSE Head(seqs) \o Concat(Tail(seqs))

\* the directory part of a pattern (filepath.Split, then cleanGlobPath)
GlobDirPart(pattern) == CleanGlobPath(SubSeq(pattern, 1, LastSlash(pattern)))

\* the file part of a pattern (filepath.Split)
GlobFilePart(pattern) == SubSeq(pattern, LastSlash(pattern) + 1, Len(pattern))

\* the matches of file in every directory of dirs
GlobEach(fs, dirs, file) == Concat([i \in 1..Len(dirs) |-> GlobDir(fs, dirs[i], file)])

\* filepath.Glob(pattern) with the repository root as working directory
RECURSIVE FilepathGlob(_, _)
FilepathGlob(fs, pattern) ==
    IF ~HasMeta(pattern)
    THEN IF OsLstat(fs, pattern) = NoNode THEN <<>> ELSE <<pattern>>
    ELSE IF ~HasMeta(GlobDirPart(pattern))
    THEN GlobDir(fs, GlobDirPart(pattern), GlobFilePart(pattern))
    ELSE GlobEach(fs, FilepathGlob(fs, GlobDirPart(pattern)), GlobFilePart(pattern))

\* the directories of dirs, each with the node os.Stat resolves it to
ListedOf(fs, dirs) ==
    {ReadOf(dirs[i], OsStat(fs, dirs[i])) : i \in 1..Len(dirs)}

\* the directories FilepathGlob lists
RECURSIVE GlobListed(_, _)
GlobListed(fs, pattern) ==
    IF ~HasMeta(pattern) THEN {}
    ELSE IF ~HasMeta(GlobDirPart(pattern))
    THEN {r \in ListedOf(fs, <<GlobDirPart(pattern)>>) :
             r.node # NoNode /\ fs[r.node].k = "dir"}
    ELSE {r \in ListedOf(fs, FilepathGlob(fs, GlobDirPart(pattern))) :
             r.node # NoNode /\ fs[r.node].k = "dir"}
         \cup GlobListed(fs, GlobDirPart(pattern))

RECURSIVE WalkCalls(_, _, _, _, _)

\* the calls of filepath.Walk on the entry of directory node d named nm
WalkEntry(fs, path, d, nm, skip, depth) ==
    IF fs[fs[d].e[nm]].k # "dir"
    THEN <<ReadOf(FilepathJoin(path, nm), fs[d].e[nm])>>
    ELSE IF nm \in skip \/ depth = 0 THEN <<>>
    ELSE WalkCalls(fs, FilepathJoin(path, nm), fs[d].e[nm], skip, depth - 1)

\* the calls of filepath.Walk on the entries names of directory node d
WalkNames(fs, path, d, names, skip, depth) ==
    Concat([i \in 1..Len(names) |-> WalkEntry(fs, path, d, names[i], skip, depth)])

\* the calls filepath.Walk makes to walkFn on the entries of directory node d
\* of path that are no directories, in order: names sorted, a directory before
\* its entries, links not followed, and no descent into a directory whose name
\* is in skip (filepath.SkipDir)
WalkCalls(fs, path, d, skip, depth) ==
    WalkNames(fs, path, d, SortStrings(DOMAIN fs[d].e), skip, depth)

\* confineToRepo after EvalSymlinks of the parent directory gave parent
confineParent(fs, parent) ==
    IF parent = NoNode THEN "path resolution failed"
    ELSE IF ~InsideRoot(fs, parent) THEN "path escapes repo root"
    ELSE ErrNone

\* confineToRepo after EvalSymlinks of the target gave target
confineTarget(fs, relPath, target) ==
    IF target = NoNode
    THEN confineParent(fs, EvalSymlinks(fs, FilepathDir(FilepathClean(relPath))))
    ELSE IF ~InsideRoot(fs, target) THEN "path escapes repo root"
    ELSE ErrNone

\* confineToRepo: the error it returns
confineToRepo(fs, relPath) ==
    IF requireSafePath(relPath) # ErrNone THEN requireSafePath(relPath)
    ELSE confineTarget(fs, relPath, EvalSymlinks(fs, relPath))

\* the limit without its ceiling of defaultMaxResults (a mutation)
ResultLimitNoCeiling(maxResults) ==
    IF maxResults <= 0 THEN defaultMaxResults ELSE maxResults

\* the limit toolGlob and toolGrep apply, from the max_results argument
ResultLimit(maxResults) ==
    IF maxResults <= 0 \/ maxResults > defaultMaxResults THEN defaultMaxResults
    ELSE maxResults

\* the test of toolGlob on what os.Stat gave for a match
GlobIsFile(fs, n) == n # NoNode /\ fs[n].k # "dir"

\* the test of the loop of toolGlob on one match without the denylist test
\* (a mutation)
GlobKeepsDenied(fs, match) ==
    /\ GlobIsFile(fs, OsStat(fs, match))
    /\ confineToRepo(fs, FilepathToSlash(match)) = ErrNone

\* the test of the loop of toolGlob on one match: os.Stat succeeds and is no
\* directory, the path is not denied, and confineToRepo accepts it
GlobKeeps(fs, match) ==
    /\ GlobIsFile(fs, OsStat(fs, match))
    /\ ~isDeniedPath(FilepathToSlash(match))
    /\ confineToRepo(fs, FilepathToSlash(match)) = ErrNone

\* the loop of toolGlob over matches from index i on
RECURSIVE GlobLoop(_, _, _, _, _)
GlobLoop(fs, matches, i, results, limit) ==
    IF i > Len(matches) \/ Len(results) >= limit THEN results
    ELSE GlobLoop(fs, matches, i + 1,
                  IF GlobKeeps(fs, matches[i])
                  THEN Append(results, FilepathToSlash(matches[i])) ELSE results,
                  limit)

\* toolGlob
toolGlob(fs, pattern, maxResults) ==
    IF requireSafePath(pattern) # ErrNone
    THEN Out(fs, Fail("Glob", requireSafePath(pattern)), {}, {})
    ELSE Out(fs,
             Success("Glob", <<>>, <<>>,
                     GlobLoop(fs, FilepathGlob(fs, pattern), 1, <<>>, ResultLimit(maxResults)),
                     0),
             {"chdir", "glob", "stat", "evalsymlinks"},
             GlobListed(fs, pattern))

maxGrepFileSize == 2097152

\* the directory names walkFn answers with filepath.SkipDir
GrepSkipDirs(variant) ==
    IF variant = "review"
    THEN {NmGit, <<"n","o","d","e","_","m","o","d","u","l","e","s">>, <<".","v","e","n","v">>}
    ELSE {NmGit}

\* relPath of walkFn
GrepRelPath(path) == StringsTrimPrefix(FilepathToSlash(path), <<".", "/">>)

\* the tests of walkFn on a walked entry that is no directory, up to the open
GrepOpens(fs, relPath, node, globFilter) ==
    /\ ~isDeniedPath(relPath)
    /\ globFilter # <<>> => FilepathMatch(globFilter, relPath)
    /\ ByteLen(fs[node].d) <= maxGrepFileSize
    /\ confineToRepo(fs, relPath) = ErrNone
    /\ fs[node].k # "link"

\* fmt.Sprintf("%s:%d:%s", relPath, lineNum, line)
GrepRecord(relPath, lineNum, line) == relPath \o <<":">> \o Digits(lineNum) \o <<":">> \o line

\* the records of the lines lo..hi that contain query, in the order of the lines
RECURSIVE GrepHits(_, _, _, _, _)
GrepHits(relPath, lines, lo, hi, query) ==
    IF lo > hi THEN <<>>
    ELSE IF lo = hi
    THEN (IF StringsContains(lines[lo], query)
          THEN <<GrepRecord(relPath, lo, lines[lo])>> ELSE <<>>)
    ELSE GrepHits(relPath, lines, lo, (lo + hi) \div 2, query)
         \o GrepHits(relPath, lines, (lo + hi) \div 2 + 1, hi, query)

\* the scan loop of walkFn ending one record before limit (a mutation)
GrepScanShort(matches, hits, limit) ==
    IF Len(hits) <= limit - Len(matches) THEN matches \o hits
    ELSE matches \o SubSeq(hits, 1, limit - Len(matches) - 1)

\* the scan loop of walkFn: it appends the records of the matching lines in
\* order and ends when matches holds limit records
GrepScan(matches, hits, limit) ==
    IF Len(hits) <= limit - Len(matches) THEN matches \o hits
    ELSE matches \o SubSeq(hits, 1, limit - Len(matches))

\* walkFn after openSecure gave o: acc holds the matches and the files opened
GrepVisit(fs, relPath, query, acc, limit, o) ==
    IF o.err # SysOk THEN acc
    ELSE [matches |-> GrepScan(acc.matches,
                              GrepHits(relPath, ScanLines(fs[o.fd].d), 1,
                                       Len(ScanLines(fs[o.fd].d)), query),
                              limit),
          opened |-> acc.opened \cup {ReadOf(relPath, o.fd)}]

RECURSIVE GrepWalk(_, _, _, _, _, _, _)

\* walkFn ending the walk at an entry it does not open (a mutation)
GrepEntryAborts(fs, calls, i, relPath, query, globFilter, acc, limit) ==
    IF ~GrepOpens(fs, relPath, calls[i].node, globFilter) THEN acc
    ELSE IF Len(acc.matches) >= limit THEN acc
    ELSE GrepWalk(fs, calls, i + 1, query, globFilter,
                  GrepVisit(fs, relPath, query, acc, limit,
                            openSecure(fs, relPath, ReadFlags)),
                  limit)

\* walkFn on call i of the walk, an entry that is no directory; fs.SkipAll
\* ends the walk
GrepEntry(fs, calls, i, relPath, query, globFilter, acc, limit) ==
    IF ~GrepOpens(fs, relPath, calls[i].node, globFilter)
    THEN GrepWalk(fs, calls, i + 1, query, globFilter, acc, limit)
    ELSE IF Len(acc.matches) >= limit THEN acc
    ELSE GrepWalk(fs, calls, i + 1, query, globFilter,
                  GrepVisit(fs, relPath, query, acc, limit,
                            openSecure(fs, relPath, ReadFlags)),
                  limit)

\* filepath.Walk(".", walkFn) over the calls from index i on
GrepWalk(fs, calls, i, query, globFilter, acc, limit) ==
    IF i > Len(calls) THEN acc
    ELSE GrepEntry(fs, calls, i, GrepRelPath(calls[i].path), query, globFilter, acc, limit)

\* the ToolResult of toolGrep from what the walk gathered
GrepResult(fs, acc) ==
    Out(fs, Success("Grep", <<>>, <<>>, acc.matches, 0),
        {"chdir", "walk", "lstat", "evalsymlinks", "open", "read"}, acc.opened)

\* toolGrep of the variant ("executor" or "review")
toolGrep(fs, variant, query, globFilter, maxResults) ==
    IF query = <<>> THEN Out(fs, Fail("Grep", "query required"), {}, {})
    ELSE IF globFilter # <<>> /\ requireSafePath(globFilter) # ErrNone
    THEN Out(fs, Fail("Grep", "invalid glob"), {}, {})
    ELSE GrepResult(fs, GrepWalk(fs,
                                 WalkCalls(fs, <<".">>, Root, GrepSkipDirs(variant),
                                           Cardinality(Node)),
                                 1, query, globFilter, [matches |-> <<>>, opened |-> {}],
                                 ResultLimit(maxResults)))

(***************************************************************************)
(* The arguments the remote model may send                                 *)
(***************************************************************************)

PathF == <<"f">>
PathAF == <<"a", "/", "f">>
PathA == <<"a">>
PathNew == <<"n">>
PathAN == <<"a", "/", "n">>
PathABN == <<"a", "/", "b", "/", "n">>
PathEnv == <<".", "e", "n", "v">>
PathEnvDot == <<".", "e", "n", "v", "/", ".">>
PathPem == <<"a", "/", "k", ".", "P", "E", "M">>
PathGitC == <<".", "g", "i", "t", "/", "c">>
PathSecretsNew == <<"s", "e", "c", "r", "e", "t", "s", ".", "y">>
PathUp == <<".", ".", "/", "f">>
PathMidUp == <<"a", "/", ".", ".", "/", "f">>
PathUpEnv == <<".", ".", "/", ".", "e", "n", "v">>
PathAbs == <<"/", "f">>
PathHome == <<"~", "/", "f">>
PathLinkDirF == <<"l", "/", "f">>
PathLinkDirNew == <<"l", "/", "n">>
PathLinkFile == <<"s">>
PathLinkIn == <<"i">>
PathEmpty == <<>>
PathNewline == <<"a", "\n", "f">>
PathMissing == <<"z">>

\* paths that pass requireSafePath
SafePaths ==
    {PathF, PathAF, PathA, PathNew, PathABN, PathEnv, PathEnvDot, PathPem, PathGitC,
     PathSecretsNew, PathLinkDirF, PathLinkDirNew, PathLinkFile, PathLinkIn, PathMissing}

\* paths with a ".." segment, a leading "/" or a leading "~", and the other
\* strings requireSafePath rejects
UnsafePaths == {PathUp, PathMidUp, PathUpEnv, PathAbs, PathHome, PathEmpty, PathNewline}

Paths == SafePaths \cup UnsafePaths

Patterns ==
    {<<"*">>, <<"*", "/", "*">>, <<"a", "/", "*">>, <<"l", "/", "*">>, <<"?">>,
     PathEnv, PathGitC, <<".", "g", "i", "t", "/", "*">>, PathLinkFile, PathLinkDirF,
     <<".", ".", "/", "*">>, <<"/", "*">>, <<"~", "*">>, <<"a", "/", ".", ".", "/", "*">>}

GlobFilters ==
    {<<>>, <<"*">>, <<"a", "/", "*">>, PathEnv, <<".", ".", "/", "*">>, <<"/", "*">>,
     <<"~", "*">>}

Queries == {<<>>, <<"a">>, <<"b">>}
Contents == {<<>>, <<"a", "b">>, <<"b", "\n", "b", "\n">>}
OldStrings == {<<>>, <<"a">>, <<"b">>, <<"a", "a">>}
NewStrings == {<<>>, <<"b">>}
MaxResultsArgs == {-1, 0, 1, 2, 201}
ReadArgs == {<<0, 0, 0>>, <<2, 0, 1>>, <<-1, 1, 401>>}
Variants == {"executor", "review"}

\* bound: tool calls answered, and changes of the tree by others, before the
\* last tool call of a behaviour
MaxCalls == 1

(***************************************************************************)
(* State                                                                   *)
(***************************************************************************)

VARIABLES
    fs,      \* the filesystem: node -> directory, file, link or free
    last,    \* the last tool call: its arguments, the filesystem before it,
             \* its ToolResult, its system calls and what it read
    nCalls,  \* steps taken so far
    open,    \* the call of openSecure in progress
    loop,    \* the dispatch loop executeTask
    proc     \* the process: main, its arguments and environment, its exit
             \* code, and the session records it leaves on disk

vars == <<fs, last, nCalls, open, loop, proc>>

NoCall ==
    [tool |-> "none", variant |-> "", path |-> <<>>, old |-> <<>>, new |-> <<>>,
     content |-> <<>>, query |-> <<>>, nums |-> <<>>, pre |-> InitFS,
     res |-> Fail("none", ""), sys |-> {}, rd |-> {}]

Call(tool, path, pre, out) ==
    [NoCall EXCEPT !.tool = tool, !.path = path, !.pre = pre, !.res = out.res,
                   !.sys = out.sys, !.rd = out.rd]

NoOpen ==
    [st |-> "idle", path |-> <<>>, flags |-> {}, parts |-> <<>>, i |-> 0, cur |-> NoNode,
     fd |-> NoNode, err |-> ErrNone, chain |-> <<>>, inside |-> FALSE, moves |-> 0]

NoLoop ==
    [st |-> "Idle", maxIters |-> 0, iteration |-> 0, modelCalls |-> 0, toolRuns |-> 0,
     ran |-> 0, inputItems |-> <<>>, sent |-> <<>>, failed |-> <<>>, stdout |-> <<>>,
     conversationID |-> <<>>, carried |-> <<>>,
     turn |-> [kind |-> "none", output |-> [list |-> FALSE, items |-> <<>>]],
     err |-> ""]

\* no process was started; no session record is on disk
NoProc ==
    [pc |-> "idle", variant |-> "", nArgs |-> 0, id |-> <<>>, apiKey |-> "", env |-> "",
     maxIters |-> 0, exit |-> -1, stored |-> "none", conversationID |-> <<>>,
     createdNow |-> FALSE, createErr |-> FALSE, nCreated |-> 0, store |-> <<>>, runs |-> 0]

Init ==
    /\ fs = InitFS
    /\ last = NoCall
    /\ nCalls = 0
    /\ open = NoOpen
    /\ loop = NoLoop
    /\ proc = NoProc

\* the model invokes Read
DoRead ==
    /\ last.tool = "none"
    /\ nCalls <= MaxCalls
    /\ \E path \in Paths, a \in ReadArgs :
          \E out \in {toolRead(fs, path, a[1], a[2], a[3])} :
             /\ fs' = out.fs
             /\ last' = [Call("Read", path, fs, out) EXCEPT !.nums = a]
    /\ UNCHANGED <<nCalls, open, loop, proc>>

\* the model invokes Write
DoWrite ==
    /\ last.tool = "none"
    /\ nCalls <= MaxCalls
    /\ \E path \in Paths, content \in Contents :
          \E out \in {toolWrite(fs, path, content)} :
             /\ fs' = out.fs
             /\ last' = [Call("Write", path, fs, out) EXCEPT !.content = content]
    /\ UNCHANGED <<nCalls, open, loop, proc>>

\* the model invokes Edit
DoEdit ==
    /\ last.tool = "none"
    /\ nCalls <= MaxCalls
    /\ \E path \in Paths, old \in OldStrings, new \in NewStrings :
          \E out \in {toolEdit(fs, path, old, new)} :
             /\ fs' = out.fs
             /\ last' = [Call("Edit", path, fs, out) EXCEPT !.old = old, !.new = new]
    /\ UNCHANGED <<nCalls, open, loop, proc>>

\* the model invokes Glob
DoGlob ==
    /\ last.tool = "none"
    /\ nCalls <= MaxCalls
    /\ \E pattern \in Patterns, max \in MaxResultsArgs :
          \E out \in {toolGlob(fs, pattern, max)} :
             /\ fs' = out.fs
             /\ last' = [Call("Glob", pattern, fs, out) EXCEPT !.nums = <<max>>]
    /\ UNCHANGED <<nCalls, open, loop, proc>>

\* the model invokes Grep
DoGrep ==
    /\ last.tool = "none"
    /\ nCalls <= MaxCalls
    /\ \E variant \in Variants, query \in Queries, glob \in GlobFilters,
          max \in MaxResultsArgs :
          \E out \in {toolGrep(fs, variant, query, glob, max)} :
             /\ fs' = out.fs
             /\ last' = [Call("Grep", glob, fs, out) EXCEPT !.variant = variant,
                                                            !.query = query,
                                                            !.nums = <<max>>]
    /\ UNCHANGED <<nCalls, open, loop, proc>>

\* between two tool calls somebody replaces a directory or a file of the
\* repository by a symbolic link that points outside of it
ReplaceBySymlink ==
    /\ last.tool = "none"
    /\ nCalls < MaxCalls
    /\ \E d \in {Root, NodeA}, nm \in {NmA, NmF}, l \in {LinkOutDir, LinkOutFile} :
          /\ Lookup(fs, d, nm) # NoNode
          /\ fs[Lookup(fs, d, nm)].k = (IF l = LinkOutDir THEN "dir" ELSE "file")
          /\ InsideRoot(fs, d)
          /\ fs' = [fs EXCEPT ![d] = DirOf((nm :> l) @@ fs[d].e)]
    /\ last' = NoCall
    /\ nCalls' = nCalls + 1
    /\ UNCHANGED <<open, loop, proc>>

\* the ToolResult goes back to the model, which may send its next call
Deliver ==
    /\ last.tool # "none"
    /\ nCalls < MaxCalls
    /\ fs' = fs
    /\ last' = NoCall
    /\ nCalls' = nCalls + 1
    /\ UNCHANGED <<open, loop, proc>>

Next == DoRead \/ DoWrite \/ DoEdit \/ DoGlob \/ DoGrep \/ Deliver \/ ReplaceBySymlink

Spec == Init /\ [][Next]_vars

(***************************************************************************)
(* openSecure step by step, every openat interleaved with the changes of   *)
(* the tree by another process                                             *)
(***************************************************************************)

\* bound: changes of the tree by the other process during one call
MaxMoves == 2

NmX == <<"x">>

\* the paths openSecure is called with; each passes requireSafePath
OpenPaths ==
    {PathF, PathAF, PathAN, PathABN, PathA, PathNew, PathLinkDirF, PathLinkFile,
     <<"a", "/", ".", "/", "f">>}

OpenFlagSets == {ReadFlags, WriteFlags, RewriteFlags}

\* what one openat of the walk did: the directory descriptor it was relative
\* to, the name, the flags, the node opened, whether a link was followed, the
\* kind of the node and whether it lay below the root at that moment
Hop(cur, name, r) ==
    [from |-> cur, name |-> name, flags |-> r.fl, node |-> r.fd, via |-> r.via,
     kind |-> r.fs[r.fd].k, inside |-> InsideRoot(r.fs, r.fd)]

\* the call after the iteration on component o.i gave r
openSecureAfter(o, r) ==
    CASE r.st = "skip" -> [o EXCEPT !.i = @ + 1]
      [] r.st = "dir" ->
            [o EXCEPT !.i = @ + 1, !.cur = r.fd,
                      !.chain = Append(@, Hop(o.cur, o.parts[o.i], r))]
      [] r.st = "file" ->
            [o EXCEPT !.st = "returned", !.fd = r.fd, !.inside = InsideRoot(r.fs, r.fd),
                      !.chain = Append(@, Hop(o.cur, o.parts[o.i], r))]
      [] OTHER -> [o EXCEPT !.st = "failed", !.err = r.err]

\* openSecure is called: requireSafePath, the open of the root, filepath.Clean
\* and strings.Split
OpenCall ==
    /\ open.st = "idle"
    /\ \E path \in OpenPaths, flags \in OpenFlagSets :
          \E entry \in {openSecureEntry(path)} :
             open' = IF entry.err # ErrNone
                     THEN [open EXCEPT !.st = "failed", !.path = path, !.flags = flags,
                                       !.err = entry.err]
                     ELSE [open EXCEPT !.st = "walking", !.path = path, !.flags = flags,
                                       !.parts = entry.parts, !.i = 1, !.cur = Root]
    /\ UNCHANGED <<fs, last, nCalls, loop, proc>>

\* one iteration of the loop of openSecure, or its end
OpenStep ==
    /\ open.st = "walking"
    /\ IF open.i > Len(open.parts)
       THEN /\ fs' = fs
            /\ open' = [open EXCEPT !.st = "failed",
                                    !.err = "unexpected: loop completed without opening file"]
       ELSE \E r \in {openSecureStep(fs, open.cur, open.parts, open.i, open.flags)} :
               /\ fs' = r.fs
               /\ open' = openSecureAfter(open, r)
    /\ UNCHANGED <<last, nCalls, loop, proc>>

\* the calls the other process interleaves with: openSecure between two
\* openat, createParentDirs between any two of its system calls, toolEdit
\* between its read and its second openSecure
Interleaved == {"idle", "walking", "making", "made", "read"}

\* fs with the entry nm of directory d renamed to the entry NmX of directory to
\* and a symbolic link l put in its place
SymlinkOver(f, d, nm, l, to) ==
    [f EXCEPT ![to] = DirOf((NmX :> f[d].e[nm]) @@ f[to].e),
              ![d] = DirOf((nm :> l) @@ (IF d = to THEN (NmX :> f[d].e[nm]) @@ f[d].e
                                         ELSE f[d].e))]

\* another process replaces a component of the repository by a symbolic link:
\* what was there is renamed, inside the repository or out of it; or it puts
\* a symbolic link where nothing was
AdvSymlink ==
    /\ open.st \in Interleaved
    /\ open.moves < MaxMoves
    /\ \E d \in {Root, NodeA}, nm \in {NmA, NmF, NmN}, l \in {LinkOutDir, LinkOutFile},
          to \in {Root, OutDir} :
          /\ InsideRoot(fs, d)
          /\ IF Lookup(fs, d, nm) = NoNode
             THEN /\ to = Root
                  /\ fs' = [fs EXCEPT ![d] = DirOf((nm :> l) @@ fs[d].e)]
             ELSE /\ fs[Lookup(fs, d, nm)].k = (IF l = LinkOutDir THEN "dir" ELSE "file")
                  /\ Lookup(fs, to, NmX) = NoNode
                  /\ fs' = SymlinkOver(fs, d, nm, l, to)
    /\ open' = [open EXCEPT !.moves = @ + 1]
    /\ UNCHANGED <<last, nCalls, loop, proc>>

\* the directories another process may exchange (renameat2 with
\* RENAME_EXCHANGE, or two renames)
SwapPairs == {<<Root, NmA, Root, NmGit>>, <<Root, NmA, OutDir, NmD>>}

\* another process swaps a directory of the repository for another one
AdvSwap ==
    /\ open.st \in Interleaved
    /\ open.moves < MaxMoves
    /\ \E p \in SwapPairs :
          /\ Lookup(fs, p[1], p[2]) # NoNode
          /\ Lookup(fs, p[3], p[4]) # NoNode
          /\ fs[Lookup(fs, p[1], p[2])].k = "dir"
          /\ fs[Lookup(fs, p[3], p[4])].k = "dir"
          /\ fs' = [fs EXCEPT ![p[1]].e[p[2]] = fs[p[3]].e[p[4]],
                              ![p[3]].e[p[4]] = fs[p[1]].e[p[2]]]
    /\ open' = [open EXCEPT !.moves = @ + 1]
    /\ UNCHANGED <<last, nCalls, loop, proc>>

NextOpen == OpenCall \/ OpenStep \/ AdvSymlink \/ AdvSwap

SpecOpen == Init /\ [][NextOpen]_vars

(***************************************************************************)
(* DispatchLoop: executeTask.  JSON values carry their type (t): a string  *)
(* (s), a number (n) or null.                                              *)
(***************************************************************************)

JStr(s) == [t |-> "string", s |-> s, n |-> 0]
JNum(n) == [t |-> "number", s |-> <<>>, n |-> n]
JNull == [t |-> "null", s |-> <<>>, n |-> 0]

\* the argument texts the remote model sends
ArgsReadF == <<"{path:f}">>
ArgsReadUp == <<"{path:../f}">>
ArgsReadEnv == <<"{path:.env}">>
ArgsReadMissing == <<"{path:z}">>
ArgsEditAmbiguous == <<"{path:f,old_string:a,new_string:b}">>
ArgsEditAF == <<"{path:a/f,old_string:aa,new_string:b}">>
ArgsWriteNew == <<"{path:n,content:ab}">>
ArgsReadNew == <<"{path:n}">>
ArgsGlobAll == <<"{pattern:*,max_results:1}">>
ArgsGrepB == <<"{query:b}">>
ArgsNumbers == <<"{path:2,start_line:x}">>
ArgsNullText == <<"null">>
ArgsArray == <<"[1]">>
ArgsTruncated == <<"{path:">>
ArgsEmpty == <<"{}">>

\* json.Unmarshal([]byte(argsStr), &args) on these texts: the map, or an error
Parsed(args) == [err |-> FALSE, args |-> args]

JsonUnmarshal(argsStr) ==
    CASE argsStr = ArgsReadF -> Parsed([path |-> JStr(PathF)])
      [] argsStr = ArgsReadUp -> Parsed([path |-> JStr(PathUp)])
      [] argsStr = ArgsReadEnv -> Parsed([path |-> JStr(PathEnv)])
      [] argsStr = ArgsReadMissing -> Parsed([path |-> JStr(PathMissing)])
      [] argsStr = ArgsEditAmbiguous ->
            Parsed([path |-> JStr(PathF), old_string |-> JStr(<<"a">>),
                    new_string |-> JStr(<<"b">>)])
      [] argsStr = ArgsEditAF ->
            Parsed([path |-> JStr(PathAF), old_string |-> JStr(<<"a", "a">>),
                    new_string |-> JStr(<<"b">>)])
      [] argsStr = ArgsWriteNew ->
            Parsed([path |-> JStr(PathNew), content |-> JStr(<<"a", "b">>)])
      [] argsStr = ArgsReadNew -> Parsed([path |-> JStr(PathNew)])
      [] argsStr = ArgsGlobAll ->
            Parsed([pattern |-> JStr(<<"*">>), max_results |-> JNum(1)])
      [] argsStr = ArgsGrepB -> Parsed([query |-> JStr(<<"b">>)])
      [] argsStr = ArgsNumbers -> Parsed([path |-> JNum(2), start_line |-> JStr(<<"x">>)])
      [] argsStr = ArgsNullText -> Parsed(<<>>)
      [] argsStr = ArgsEmpty -> Parsed(<<>>)
      [] OTHER -> [err |-> TRUE, args |-> <<>>]

\* args[key]
Arg(args, key) == IF key \in DOMAIN args THEN args[key] ELSE JNull

\* v, _ := args[key].(string)
StrArg(args, key) == IF Arg(args, key).t = "string" THEN Arg(args, key).s ELSE <<>>

\* v, _ := args[key].(float64); int(v)
NumArg(args, key) == IF Arg(args, key).t = "number" THEN Arg(args, key).n ELSE 0

\* getToolsSchema: the names of the tools sent to the model
getToolsSchema == {"Glob", "Grep", "Read", "Write", "Edit"}

\* executeTool
executeTool(f, toolName, args) ==
    CASE toolName = "Glob" ->
            toolGlob(f, StrArg(args, "pattern"), NumArg(args, "max_results"))
      [] toolName = "Read" ->
            toolRead(f, StrArg(args, "path"), NumArg(args, "start_line"),
                     NumArg(args, "end_line"), NumArg(args, "max_lines"))
      [] toolName = "Write" ->
            toolWrite(f, StrArg(args, "path"), StrArg(args, "content"))
      [] toolName = "Edit" ->
            toolEdit(f, StrArg(args, "path"), StrArg(args, "old_string"),
                     StrArg(args, "new_string"))
      [] OTHER -> Out(f, Fail("", "Unknown tool"), {}, {})

\* items of the "output" list of a response
FunctionCall(name, callID, arguments) ==
    [map |-> TRUE, type |-> "function_call", name |-> name, call_id |-> callID,
     arguments |-> arguments, content |-> [list |-> FALSE, parts |-> <<>>]]

Message(parts) ==
    [map |-> TRUE, type |-> "message", name |-> JNull, call_id |-> JNull,
     arguments |-> JNull, content |-> [list |-> TRUE, parts |-> parts]]

MessageNoList ==
    [map |-> TRUE, type |-> "message", name |-> JNull, call_id |-> JNull,
     arguments |-> JNull, content |-> [list |-> FALSE, parts |-> <<>>]]

Reasoning ==
    [map |-> TRUE, type |-> "reasoning", name |-> JNull, call_id |-> JNull,
     arguments |-> JNull, content |-> [list |-> FALSE, parts |-> <<>>]]

NotAMap ==
    [map |-> FALSE, type |-> "", name |-> JNull, call_id |-> JNull,
     arguments |-> JNull, content |-> [list |-> FALSE, parts |-> <<>>]]

OutputText(text) == [map |-> TRUE, type |-> "output_text", text |-> JStr(text)]
Refusal(text) == [map |-> TRUE, type |-> "refusal", text |-> JStr(text)]
TextNotString == [map |-> TRUE, type |-> "output_text", text |-> JNum(1)]

\* what callResponsesAPI gives: a decoded body, or one of its errors
Response(items) == [kind |-> "ok", output |-> [list |-> TRUE, items |-> items]]
ResponseNoList == [kind |-> "ok", output |-> [list |-> FALSE, items |-> <<>>]]
ResponseError(kind) == [kind |-> kind, output |-> [list |-> FALSE, items |-> <<>>]]

Call1(name, arguments) == FunctionCall(JStr(<<name>>), JStr(<<"c1">>), JStr(arguments))
Call2(name, arguments) == FunctionCall(JStr(<<name>>), JStr(<<"c2">>), JStr(arguments))

TextDone == <<"d", "o", "n", "e">>
TextProgress == <<"[", "P", "]">>

\* the turns of the remote model
ModelTurns ==
    << Response(<<Message(<<OutputText(TextDone)>>)>>),
       Response(<<Message(<<OutputText(TextProgress), Refusal(TextDone), TextNotString,
                            OutputText(TextDone)>>), Reasoning, NotAMap, MessageNoList>>),
       Response(<<>>),
       ResponseNoList,
       ResponseError("network error"),
       ResponseError("status not 200"),
       ResponseError("body not JSON"),
       Response(<<Call1("Read", ArgsReadF)>>),
       Response(<<Call1("Read", ArgsReadUp)>>),
       Response(<<Call1("Read", ArgsReadEnv)>>),
       Response(<<Call1("Read", ArgsReadMissing)>>),
       Response(<<Call1("Edit", ArgsEditAmbiguous)>>),
       Response(<<Call1("Edit", ArgsEditAF)>>),
       Response(<<Call1("Bash", ArgsEmpty)>>),
       Response(<<Call1("Grep", ArgsGrepB)>>),
       Response(<<Call1("Glob", ArgsGlobAll)>>),
       Response(<<Call1("Read", ArgsTruncated)>>),
       Response(<<Call1("Read", ArgsArray)>>),
       Response(<<Call1("Read", ArgsNullText)>>),
       Response(<<Call1("Read", ArgsNumbers)>>),
       Response(<<FunctionCall(JStr(<<"Read">>), JStr(<<"c1">>), JNum(1))>>),
       Response(<<FunctionCall(JStr(<<"Read">>), JNull, JStr(ArgsReadF))>>),
       Response(<<FunctionCall(JNum(1), JStr(<<"c1">>), JStr(ArgsReadF))>>),
       Response(<<Message(<<OutputText(TextProgress)>>), Call1("Write", ArgsWriteNew)>>),
       Response(<<Call1("Read", ArgsReadEnv), Call2("Read", ArgsReadF)>>),
       Response(<<Call1("Write", ArgsWriteNew), Call2("Edit", ArgsEditAmbiguous)>>),
       Response(<<Call1("Write", ArgsWriteNew), Call2("Read", ArgsReadNew)>>),
       Response(<<Call1("Read", ArgsReadNew), Call2("Write", ArgsWriteNew)>>) >>

\* bound: the largest value of MAX_ITERS
MaxIters == 2

MaxItersArgs == -2..MaxIters

\* extractCallsAndText: the function_call items in order
RECURSIVE extractCalls(_, _)
extractCalls(items, i) ==
    IF i > Len(items) THEN <<>>
    ELSE IF items[i].map /\ items[i].type = "function_call"
    THEN <<[name |-> items[i].name, call_id |-> items[i].call_id,
            arguments |-> items[i].arguments]>> \o extractCalls(items, i + 1)
    ELSE extractCalls(items, i + 1)

\* the texts of the output_text parts of one message, joined
RECURSIVE extractParts(_, _)
extractParts(parts, i) ==
    IF i > Len(parts) THEN <<>>
    ELSE IF parts[i].map /\ parts[i].type = "output_text" /\ parts[i].text.t = "string"
    THEN parts[i].text.s \o extractParts(parts, i + 1)
    ELSE extractParts(parts, i + 1)

\* extractCallsAndText: strings.Join(texts, "")
RECURSIVE extractText(_, _)
extractText(items, i) ==
    IF i > Len(items) THEN <<>>
    ELSE IF items[i].map /\ items[i].type = "message" /\ items[i].content.list
    THEN extractParts(items[i].content.parts, 1) \o extractText(items, i + 1)
    ELSE extractText(items, i + 1)

\* extractCallsAndText
extractCallsAndText(resp) ==
    IF ~resp.output.list THEN [calls |-> <<>>, text |-> <<>>]
    ELSE [calls |-> extractCalls(resp.output.items, 1),
          text |-> extractText(resp.output.items, 1)]

\* json.Marshal(result): the fields of ToolResult
JsonMarshal(result) ==
    [ok |-> result.ok, error |-> result.error, path |-> result.path,
     content |-> result.content, results |-> result.results, count |-> result.count]

\* the output sent for arguments that json.Unmarshal rejects
InvalidArguments == JsonMarshal(Fail("", "Invalid arguments"))

\* outputs = append(outputs, ...) with the failed results left out (a mutation)
outputsAppendOkOnly(outputs, callID, output) ==
    IF output.ok
    THEN Append(outputs, [type |-> "function_call_output", call_id |-> callID,
                          output |-> output])
    ELSE outputs

\* outputs = append(outputs, ...) putting the new output first (a mutation)
outputsAppendFront(outputs, callID, output) ==
    <<[type |-> "function_call_output", call_id |-> callID, output |-> output]>> \o outputs

\* outputs = append(outputs, ...)
outputsAppend(outputs, callID, output) ==
    Append(outputs, [type |-> "function_call_output", call_id |-> callID,
                     output |-> output])

\* the call_id of a call whose result is a failure is noted in failed
NoteFailed(failed, callID, output) ==
    IF output.ok THEN failed ELSE Append(failed, callID)

\* one tool call after executeTool gave out
runCallDone(acc, callID, out) ==
    [fs |-> out.fs,
     outputs |-> outputsAppend(acc.outputs, callID, JsonMarshal(out.res)),
     runs |-> acc.runs + 1,
     failed |-> NoteFailed(acc.failed, callID, out.res)]

\* one tool call after json.Unmarshal gave p
runCallParsed(acc, call, p) ==
    IF p.err
    THEN [acc EXCEPT !.outputs = outputsAppend(@, call.call_id.s, InvalidArguments),
                     !.failed = Append(@, call.call_id.s)]
    ELSE runCallDone(acc, call.call_id.s, executeTool(acc.fs, call.name.s[1], p.args))

\* the body of the loop over toolCalls
runCall(acc, call) ==
    IF call.call_id.t # "string" THEN acc
    ELSE IF call.name.t # "string" THEN acc
    ELSE runCallParsed(acc, call,
                       JsonUnmarshal(IF call.arguments.t = "string" THEN call.arguments.s
                                     ELSE ArgsEmpty))

\* the loop over toolCalls left after its first iteration (a mutation)
runCallsFirstOnly(acc, toolCalls, i) ==
    IF i > Len(toolCalls) \/ i > 1 THEN acc ELSE runCall(acc, toolCalls[i])

\* the loop over toolCalls
RECURSIVE runCalls(_, _, _)
runCalls(acc, toolCalls, i) ==
    IF i > Len(toolCalls) THEN acc
    ELSE runCalls(runCall(acc, toolCalls[i]), toolCalls, i + 1)

\* fmt.Print(outputText) when it is not empty
PrintText(stdout, outputText) ==
    IF outputText # <<>> THEN Append(stdout, outputText) ELSE stdout

CompleteMark == <<"[CODEX_COMPLETE]">>

\* the test of the for statement with its bound one too high (a mutation)
loopContinuesOneMore(iteration, maxIters) == iteration <= maxIters

\* the test of the for statement
loopContinues(iteration, maxIters) == iteration < maxIters

\* the test on the error of callResponsesAPI that lets a status other than
\* 200 pass (a mutation)
callFailedNetworkOnly(resp) == resp.kind \in {"network error", "body not JSON"}

\* callResponsesAPI gave an error
callFailed(resp) == resp.kind # "ok"

\* the test for the end of the task with its bound one too high (a mutation)
taskCompleteUpToOne(toolCalls) == Len(toolCalls) <= 1

\* len(toolCalls) == 0
taskComplete(toolCalls) == Len(toolCalls) = 0

\* one iteration after the tool calls ran
turnRan(lp, resp, ex, acc) ==
    [fs |-> acc.fs,
     loop |-> [lp EXCEPT !.iteration = @ + 1, !.modelCalls = @ + 1,
                         !.toolRuns = @ + acc.runs, !.ran = acc.runs,
                         !.sent = lp.inputItems,
                         !.carried = Append(@, lp.conversationID), !.inputItems = acc.outputs,
                         !.failed = acc.failed, !.turn = resp,
                         !.stdout = PrintText(@, ex.text)]]

\* one iteration after extractCallsAndText gave ex
turnExtracted(lp, f, resp, ex) ==
    IF taskComplete(ex.calls)
    THEN [fs |-> f,
          loop |-> [lp EXCEPT !.st = "Complete", !.modelCalls = @ + 1, !.ran = 0,
                              !.sent = lp.inputItems,
                              !.carried = Append(@, lp.conversationID),
                              !.failed = <<>>, !.turn = resp,
                              !.stdout = Append(PrintText(@, ex.text), CompleteMark)]]
    ELSE turnRan(lp, resp, ex,
                 runCalls([fs |-> f, outputs |-> <<>>, runs |-> 0, failed |-> <<>>],
                          ex.calls, 1))

\* one iteration of executeTask after callResponsesAPI gave resp
turn(lp, f, resp) ==
    IF callFailed(resp)
    THEN [fs |-> f,
          loop |-> [lp EXCEPT !.st = "Failed", !.err = "API error", !.modelCalls = @ + 1,
                              !.ran = 0, !.sent = lp.inputItems,
                              !.carried = Append(@, lp.conversationID), !.failed = <<>>,
                              !.turn = resp]]
    ELSE turnExtracted(lp, f, resp, extractCallsAndText(resp))

UserMessage == [type |-> "message", call_id |-> <<>>, output |-> JsonMarshal(Fail("", ""))]

InitLoop ==
    /\ fs = InitFS
    /\ last = NoCall
    /\ nCalls = 0
    /\ open = NoOpen
    /\ proc = NoProc
    /\ \E m \in MaxItersArgs :
          loop = [NoLoop EXCEPT !.st = "AwaitingModel", !.maxIters = m,
                                !.inputItems = <<UserMessage>>]

\* one iteration of executeTask: the model is called and its tool calls run
Turn ==
    /\ loop.st = "AwaitingModel"
    /\ loopContinues(loop.iteration, loop.maxIters)
    /\ \E k \in 1..Len(ModelTurns) :
          \E t \in {turn(loop, fs, ModelTurns[k])} :
             /\ fs' = t.fs
             /\ loop' = t.loop
    /\ UNCHANGED <<last, nCalls, open, proc>>

\* the for statement ends: reached MAX_ITERS without completion
Abort ==
    /\ loop.st = "AwaitingModel"
    /\ ~loopContinues(loop.iteration, loop.maxIters)
    /\ loop' = [loop EXCEPT !.st = "Aborted", !.err = "reached MAX_ITERS"]
    /\ UNCHANGED <<fs, last, nCalls, open, proc>>

NextLoop == Turn \/ Abort

SpecLoop == InitLoop /\ [][NextLoop]_vars

(***************************************************************************)
(* Properties                                                              *)
(***************************************************************************)

\* the chain of openat calls of a returned handle starts at the root, each
\* call is relative to the node the call before opened, carries O_NOFOLLOW,
\* followed no link, and all but the last opened a directory
C1_RealDescent ==
    open.st = "returned" =>
        /\ Len(open.chain) >= 1
        /\ open.chain[1].from = Root
        /\ \A k \in 2..Len(open.chain) : open.chain[k].from = open.chain[k - 1].node
        /\ \A k \in 1..Len(open.chain) :
              /\ open.chain[k].via = "real"
              /\ "O_NOFOLLOW" \in open.chain[k].flags
              /\ open.chain[k].kind # "link"
        /\ \A k \in 1..(Len(open.chain) - 1) : open.chain[k].kind = "dir"
        /\ open.fd = open.chain[Len(open.chain)].node

\* C1: whatever another process does between the openat calls of openSecure
\* (a component replaced by a symbolic link, a directory swapped for another
\* one), a returned handle was reached from the root through real directories
\* alone, each opened relative to the handle before it with O_NOFOLLOW, so
\* that the file opened lies inside the root at the moment of the opening.
C1_OpenedInsideRoot ==
    /\ C1_RealDescent
    /\ open.st = "returned" => open.inside

\* a handle was returned although the tree changed during the walk
C1_ReturnedAfterMove ==
    /\ open.st = "returned"
    /\ open.moves > 0
    /\ Len(open.chain) >= 2

\* some component of path, resolved in f from directory cur, is a symbolic
\* link that points out of the repository
RECURSIVE C2_LinkOn(_, _, _, _)
C2_LinkOn(f, cur, parts, i) ==
    IF i > Len(parts) \/ cur = NoNode THEN FALSE
    ELSE IF f[cur].k # "dir" THEN FALSE
    ELSE IF parts[i] = <<>> \/ parts[i] = <<".">> THEN C2_LinkOn(f, cur, parts, i + 1)
    ELSE IF Lookup(f, cur, parts[i]) = NoNode THEN FALSE
    ELSE IF f[Lookup(f, cur, parts[i])].k = "link"
    THEN \/ OutsideRoot(f, LinkTarget(Lookup(f, cur, parts[i])))
         \/ C2_LinkOn(f, LinkTarget(Lookup(f, cur, parts[i])), parts, i + 1)
    ELSE C2_LinkOn(f, Lookup(f, cur, parts[i]), parts, i + 1)

C2_ThroughOutsideLink(f, path) == C2_LinkOn(f, Root, StringsSplit(path, "/"), 1)

\* C2: when a component of the requested path, the last one or one before it,
\* is a symbolic link that points out of the repository, Read, Write and Edit
\* fail, read nothing of what lies outside and leave it as it was; no path of
\* a Glob result and no file a Grep record comes from is reached through such
\* a link, and Grep opens nothing outside.
C2_NoSymlinkFollowed ==
    /\ (last.tool \in {"Read", "Write", "Edit"}
          /\ C2_ThroughOutsideLink(last.pre, last.path)) =>
          /\ ~last.res.ok
          /\ last.res.content = <<>>
          /\ \A r \in last.rd : ~OutsideRoot(last.pre, r.node)
          /\ \A n \in Node : OutsideRoot(last.pre, n) => fs[n] = last.pre[n]
    /\ last.tool = "Glob" =>
          \A i \in 1..Len(last.res.results) :
             ~C2_ThroughOutsideLink(last.pre, last.res.results[i])
    /\ last.tool = "Grep" =>
          /\ \A r \in last.rd :
                /\ ~C2_ThroughOutsideLink(last.pre, r.path)
                /\ ~OutsideRoot(last.pre, r.node)
          /\ \A i \in 1..Len(last.res.results) :
                \E r \in last.rd : HasPrefix(last.res.results[i], r.path \o <<":">>)

\* Edit was asked for a/f after the directory a was replaced by a link that
\* points out of the repository
C2_EditBehindLink ==
    /\ last.tool = "Edit"
    /\ last.path = PathAF
    /\ last.old = <<"b">>
    /\ C2_ThroughOutsideLink(last.pre, last.path)
    /\ ~last.res.ok

\* the path has a segment "..", or starts with "/" or with "~"
C3_Escaping(path) ==
    \/ Len(path) > 0 /\ path[1] \in {"/", "~"}
    \/ \E i \in 1..(Len(path) - 1) :
          /\ path[i] = "." /\ path[i + 1] = "."
          /\ i = 1 \/ path[i - 1] = "/"
          /\ i + 1 = Len(path) \/ path[i + 2] = "/"

\* C3: a Glob pattern, a Grep glob filter or a Read, Write or Edit path with a
\* ".." segment, a leading "/" or a leading "~" gives a failed result; the
\* call issues no system call, so it creates and changes nothing and reads
\* nothing.
C3_EscapingPathRejected ==
    (last.tool \in {"Glob", "Grep", "Read", "Write", "Edit"} /\ C3_Escaping(last.path)) =>
        /\ ~last.res.ok
        /\ last.sys = {}
        /\ last.rd = {}
        /\ fs = last.pre
        /\ last.res.content = <<>>
        /\ last.res.results = <<>>

\* Grep with a query and the glob filter "../*"
C3_GrepEscapingFilter ==
    /\ last.tool = "Grep"
    /\ last.query = <<"b">>
    /\ last.path = <<".", ".", "/", "*">>
    /\ ~last.res.ok

\* the segments of a path that name something: not "" and not "."
C4_IsName(segment) == segment # <<>> /\ segment # <<".">>
C4_Names(path) == SelectSeq(StringsSplit(FilepathToSlash(path), "/"), C4_IsName)

\* the path names a file of the denylist: the name of the file is a denied
\* basename or ends in a denied extension, or a segment is ".git"
C4_NamesDenied(path) ==
    /\ C4_Names(path) # <<>>
    /\ \/ DenyBasenamesMatch(C4_Names(path)[Len(C4_Names(path))])
       \/ DenyExtMatch(C4_Names(path)[Len(C4_Names(path))])
       \/ NmGit \in Range(C4_Names(path))

\* C4: Read, Write and Edit of a path that names a file of the denylist fail
\* before any open or mkdir is issued: no system call, no directory created,
\* the file neither opened nor changed, none of its content returned.
C4_DeniedBeforeOpen ==
    (last.tool \in {"Read", "Write", "Edit"} /\ C4_NamesDenied(last.path)) =>
        /\ ~last.res.ok
        /\ last.sys = {}
        /\ last.rd = {}
        /\ fs = last.pre
        /\ last.res.content = <<>>

\* Read of the existing file .env, asked for by its own name, is denied
C4_ReadEnvDenied ==
    /\ last.tool = "Read"
    /\ last.path = PathEnv
    /\ Lookup(last.pre, Root, NmEnv) = NodeEnv
    /\ last.res.error = "access denied"

\* the files of the initial tree that the denylist names
C5_DeniedNodes == {NodeEnv, NodeAPem, NodeGitC}

\* C5: in every state of the repository no path of a Glob result matches the
\* denylist or names a denied file, and Grep opens no denied file and returns
\* no record but from the files it opened.
C5_DeniedNeverListed ==
    /\ last.tool = "Glob" =>
          \A i \in 1..Len(last.res.results) :
             /\ ~C4_NamesDenied(last.res.results[i])
             /\ OsLstat(last.pre, last.res.results[i]) \notin C5_DeniedNodes
    /\ last.tool = "Grep" =>
          /\ \A r \in last.rd :
                /\ ~C4_NamesDenied(r.path)
                /\ r.node \notin C5_DeniedNodes
          /\ \A i \in 1..Len(last.res.results) :
                \E r \in last.rd : HasPrefix(last.res.results[i], r.path \o <<":">>)

\* Grep without a filter found lines while .env, inside the root, holds the
\* query
C5_GrepPastEnv ==
    /\ last.tool = "Grep"
    /\ last.path = <<>>
    /\ last.res.ok
    /\ Len(last.res.results) > 0
    /\ OsLstat(last.pre, PathEnv) = NodeEnv
    /\ StringsContains(last.pre[NodeEnv].d, last.query)

\* the positions of content where old matches
C6_Positions(content, old) ==
    {i \in 1..Len(content) : MatchAt(content, old, i)}

\* content with the Len(old) bytes from position i on replaced by new
C6_Replaced(content, old, new, i) ==
    SubSeq(content, 1, i - 1) \o new \o SubSeq(content, i + Len(old), Len(content))

C7_Max0(n) == IF n > 0 THEN n ELSE 0

\* C7: whatever the remote model answers and whatever MAX_ITERS is (zero and
\* negative values too), executeTask calls the model at most max(MAX_ITERS, 0)
\* times; when every turn asked for a tool the loop ends after exactly that
\* many turns with the error 'reached MAX_ITERS', and no turn follows.
C7_IterationCeiling ==
    /\ loop.modelCalls <= C7_Max0(loop.maxIters)
    /\ loop.iteration <= C7_Max0(loop.maxIters)
    /\ (loop.st = "AwaitingModel" /\ loop.iteration >= C7_Max0(loop.maxIters)) =>
          /\ ~ENABLED Turn
          /\ ENABLED Abort
    /\ loop.st = "Aborted" =>
          /\ loop.err = "reached MAX_ITERS"
          /\ loop.modelCalls = C7_Max0(loop.maxIters)
          /\ loop.iteration = loop.modelCalls
          /\ ~ENABLED NextLoop

\* the loop was aborted after two turns that each asked for a tool
C7_AbortedAtCeiling ==
    /\ loop.st = "Aborted"
    /\ loop.maxIters = 2
    /\ loop.modelCalls = 2
    /\ loop.toolRuns >= 2

\* the response lists no function_call item
C8_NoToolInvocation(resp) ==
    \A i \in 1..Len(resp.output.items) :
       ~(resp.output.items[i].map /\ resp.output.items[i].type = "function_call")

\* C8: the loop is Complete at the first turn of the model without a tool
\* invocation, after one turn when the first turn is free text alone:
\* executeTask returns without error, the text of that turn is the last text
\* it printed, and after Complete or Aborted neither the model is called nor
\* a tool run.
C8_CompleteAtFirstTextTurn ==
    /\ (loop.turn.kind = "ok" /\ C8_NoToolInvocation(loop.turn)) => loop.st = "Complete"
    /\ loop.st = "Complete" =>
          /\ loop.turn.kind = "ok"
          /\ C8_NoToolInvocation(loop.turn)
          /\ loop.err = ""
          /\ loop.ran = 0
          /\ loop.modelCalls = loop.iteration + 1
          /\ loop.stdout[Len(loop.stdout)] = CompleteMark
          /\ extractCallsAndText(loop.turn).text # <<>> =>
                /\ Len(loop.stdout) >= 2
                /\ loop.stdout[Len(loop.stdout) - 1] = extractCallsAndText(loop.turn).text
    /\ (loop.modelCalls = 1 /\ loop.turn = ModelTurns[1]) =>
          /\ loop.st = "Complete"
          /\ loop.stdout = <<TextDone, CompleteMark>>
    /\ loop.st \in {"Complete", "Aborted"} => ~ENABLED NextLoop

\* the first turn was free text alone and the loop is Complete after it
C8_CompleteInOneTurn ==
    /\ loop.st = "Complete"
    /\ loop.modelCalls = 1
    /\ loop.toolRuns = 0
    /\ loop.stdout = <<TextDone, CompleteMark>>

\* tool calls that fail on the initial tree: an invalid path, a denied path, an
\* absent file, an ambiguous edit, unknown tool names, arguments that are no
\* JSON object
C9_FailingCalls ==
    {<<"Read", ArgsReadUp>>, <<"Read", ArgsReadEnv>>, <<"Read", ArgsReadMissing>>,
     <<"Edit", ArgsEditAmbiguous>>, <<"Bash", ArgsEmpty>>, <<"Read", ArgsTruncated>>,
     <<"Read", ArgsArray>>}

\* the item is a function_call_output for callID that carries ok=false
C9_FailureFor(item, callID) ==
    /\ item.type = "function_call_output"
    /\ item.call_id = callID
    /\ ~item.output.ok

\* C9: a tool call that fails does not end the loop: after a turn with tool
\* calls the loop awaits the model (or is aborted at the ceiling), the input
\* of the next request holds for every failed call a function_call_output
\* with its call_id and ok=false, and the next turn is taken unless the
\* ceiling is reached.
C9_FailureGoesBack ==
    /\ (loop.turn.kind = "ok" /\ ~C8_NoToolInvocation(loop.turn)) =>
          /\ loop.st \in {"AwaitingModel", "Aborted"}
          /\ loop.err \in {"", "reached MAX_ITERS"}
          /\ \A k \in 1..Len(loop.failed) :
                \E j \in 1..Len(loop.inputItems) :
                   C9_FailureFor(loop.inputItems[j], loop.failed[k])
    /\ \A c \in C9_FailingCalls :
          (loop.modelCalls = 1 /\ loop.turn = Response(<<Call1(c[1], c[2])>>)) =>
             /\ Len(loop.inputItems) = 1
             /\ C9_FailureFor(loop.inputItems[1], <<"c1">>)
             /\ loop.failed = <<<<"c1">>>>
    /\ (loop.st = "AwaitingModel" /\ loop.failed # <<>>) =>
          IF loop.iteration < loop.maxIters THEN ENABLED Turn ELSE ENABLED Abort

\* a Read of ../f failed in the first turn and a second turn was taken
C9_TurnAfterFailure ==
    /\ loop.modelCalls = 2
    /\ loop.sent # <<>>
    /\ C9_FailureFor(loop.sent[1], <<"c1">>)
    /\ loop.sent[1].output.error = "parent traversal not allowed"

\* C10: when the call of the model fails (network error, a status other than
\* 200, a body that is no JSON), executeTask returns the error at once: the
\* call is not repeated, the model is not called again and no tool runs.
C10_ModelFailureIsFatal ==
    /\ loop.turn.kind \in {"network error", "status not 200", "body not JSON"} =>
          /\ loop.st = "Failed"
          /\ loop.err = "API error"
    /\ loop.st = "Failed" =>
          /\ loop.turn.kind \in {"network error", "status not 200", "body not JSON"}
          /\ loop.ran = 0
          /\ loop.modelCalls = loop.iteration + 1
          /\ ~ENABLED NextLoop

\* the second call of the model failed after a turn that ran a tool
C10_FailedAfterToolTurn ==
    /\ loop.st = "Failed"
    /\ loop.turn.kind = "status not 200"
    /\ loop.modelCalls = 2
    /\ loop.toolRuns = 1

(***************************************************************************)
(* Claims about the dispatch loop's tool calls (SpecLoop).                 *)
(***************************************************************************)

\* the function_call items of the last response
C11_Listed == extractCallsAndText(loop.turn).calls

\* the positions of the listed calls that reach executeTool: call_id and name
\* are strings and the arguments parse
C11_Dispatched ==
    {i \in 1..Len(C11_Listed) :
        /\ C11_Listed[i].call_id.t = "string"
        /\ C11_Listed[i].name.t = "string"
        /\ ~JsonUnmarshal(IF C11_Listed[i].arguments.t = "string"
                          THEN C11_Listed[i].arguments.s ELSE ArgsEmpty).err}

\* C11 as stated: in every turn the dispatch loop executes at most one tool
\* call, also when the response lists several function_call items.
C11_AtMostOneCallPerTurn == loop.ran <= 1

\* C11: in every turn the dispatch loop executes every function_call item of
\* the response whose call_id and name are strings and whose arguments parse:
\* as many tool calls run in the turn as the response lists, two when it
\* lists two.
C11_EveryListedCallRuns == loop.ran = Cardinality(C11_Dispatched)

\* a response listed two function_call items and both tools ran in that turn
C11_TwoCallsRanInOneTurn ==
    /\ Len(C11_Listed) = 2
    /\ loop.ran = 2
    /\ Len(loop.inputItems) = 2

\* the listed calls that get a function_call_output: call_id and name are strings
RECURSIVE C12_Answered(_, _)
C12_Answered(calls, i) ==
    IF i > Len(calls) THEN <<>>
    ELSE IF calls[i].call_id.t = "string" /\ calls[i].name.t = "string"
    THEN <<calls[i]>> \o C12_Answered(calls, i + 1)
    ELSE C12_Answered(calls, i + 1)

\* after a turn that asked for tools the next input holds one
\* function_call_output per answered call, in the listed order, same call_id
C12_OneOutputPerCall ==
    (loop.st \in {"AwaitingModel", "Aborted"} /\ loop.iteration > 0) =>
       LET answered == C12_Answered(C11_Listed, 1) IN
          /\ Len(loop.inputItems) = Len(answered)
          /\ \A i \in 1..Len(answered) :
                /\ loop.inputItems[i].type = "function_call_output"
                /\ loop.inputItems[i].call_id = answered[i].call_id.s

\* the parsed arguments of a listed call
C12_Args(call) ==
    JsonUnmarshal(IF call.arguments.t = "string" THEN call.arguments.s ELSE ArgsEmpty)

\* a response that lists exactly two calls that both reach executeTool
C12_TwoCalls(resp) ==
    /\ resp.kind = "ok"
    /\ Len(extractCallsAndText(resp).calls) = 2
    /\ \A i \in 1..2 :
          /\ extractCallsAndText(resp).calls[i].call_id.t = "string"
          /\ extractCallsAndText(resp).calls[i].name.t = "string"
          /\ ~C12_Args(extractCallsAndText(resp).calls[i]).err

\* the second call of a turn runs on the files the first call left, and the
\* first call on the files of the turn's start
C12_InListedOrder ==
    (loop'.modelCalls = loop.modelCalls + 1 /\ C12_TwoCalls(loop'.turn)) =>
       LET calls == extractCallsAndText(loop'.turn).calls
           o1 == executeTool(fs, calls[1].name.s[1], C12_Args(calls[1]).args)
           o2 == executeTool(o1.fs, calls[2].name.s[1], C12_Args(calls[2]).args)
       IN /\ loop'.inputItems[1].output = JsonMarshal(o1.res)
          /\ loop'.inputItems[2].output = JsonMarshal(o2.res)
          /\ fs' = o2.fs

\* the request of a turn carries the input the turn before it left, and one
\* model call is made per step
C12_NextRequestAfterTools ==
    (loop'.modelCalls # loop.modelCalls) =>
       /\ loop'.modelCalls = loop.modelCalls + 1
       /\ loop'.sent = loop.inputItems
       /\ loop.st = "AwaitingModel"

\* C12: turns are strictly sequential: the tool calls of a turn run one after
\* another in the order the model listed them, the request of the next turn
\* is sent after all of them ran and carries exactly one function_call_output
\* per listed call with a string call_id and name, in that order and with the
\* same call_id.
C12_TurnsSequential ==
    /\ []C12_OneOutputPerCall
    /\ [][C12_InListedOrder /\ C12_NextRequestAfterTools]_vars

\* a turn listed Write n then Read n: the Read found what the Write wrote, and
\* a further request carried the two outputs in the listed order
C12_ReadSawWriteOfSameTurn ==
    /\ loop.modelCalls = 2
    /\ Len(loop.sent) = 2
    /\ loop.sent[1].call_id = <<"c1">>
    /\ loop.sent[2].call_id = <<"c2">>
    /\ loop.sent[1].output.ok
    /\ loop.sent[2].output.ok
    /\ loop.sent[2].output.path = PathNew
    /\ loop.sent[2].output.content # <<>>

\* C13: in the write-capable executor every tool of the tools schema (Glob,
\* Grep, Read, Write, Edit) that the model invokes by name is dispatched by
\* executeTool to its implementation: none yields an 'Unknown tool' failure.
C13_SchemaToolsDispatched ==
    (loop.st \in {"AwaitingModel", "Aborted"} /\ loop.iteration > 0) =>
       \A i \in 1..Len(loop.inputItems) :
          (/\ Len(C12_Answered(C11_Listed, 1)) = Len(loop.inputItems)
           /\ C12_Answered(C11_Listed, 1)[i].name.s[1] \in getToolsSchema)
             => loop.inputItems[i].output.error # "Unknown tool"

\* the model invoked Grep with a query and got the 'Unknown tool' failure back
C13_GrepIsUnknown ==
    /\ loop.st = "AwaitingModel"
    /\ Len(C11_Listed) = 1
    /\ C11_Listed[1].name = JStr(<<"Grep">>)
    /\ C11_Listed[1].arguments = JStr(ArgsGrepB)
    /\ Len(loop.inputItems) = 1
    /\ ~loop.inputItems[1].output.ok
    /\ loop.inputItems[1].output.error = "Unknown tool"

(***************************************************************************)
(* A Write followed at once by a Read of the same path or by a Glob.       *)
(***************************************************************************)

\* contents of 400 and of 401 lines, and one with "\r\n" line ends
ContentFull == [i \in 1..defaultMaxReadLines |-> "\n"]
ContentOver == [i \in 1..(defaultMaxReadLines + 1) |-> "\n"]
ContentCRLF == <<"a", "\r", "\n", "b", "\r", "\n">>

WrittenContents == Contents \cup {<<"a">>, ContentCRLF, ContentFull, ContentOver}

\* a path under two directories that do not exist, and a pattern for it
PathABNewTxt == <<"a", "/", "b", "/", "n", "e", "w", ".", "t", "x", "t">>
PatternATxt == <<"a", "/", "*", "*", "/", "*", ".", "t", "x", "t">>

WrittenPaths == Paths \cup {PathAN, PathABNewTxt}
PatternsAfter == Patterns \cup {PatternATxt, PathNew, PathAN, PathAF, <<"*", "/", "*", "/", "*">>}
MaxResultsAfter == {-1, 0, 1, 201}

\* a repository with nothing in it; the tree outside of it as in InitFS
BareFS ==
    [n \in Node |->
        IF n = Root THEN DirOf(NoEntries)
        ELSE IF n \in {OutDir, OutFile, OutSub, OutSubF} THEN InitFS[n]
        ELSE FreeNode]

\* the values of end_line
ReadEnds == {1, 2, 3, defaultMaxReadLines, defaultMaxReadLines + 1, defaultMaxReadLines + 2}

\* the model invokes Write as its first call
WriteFirst ==
    /\ last.tool = "none"
    /\ \E path \in WrittenPaths, content \in WrittenContents :
          \E out \in {toolWrite(fs, path, content)} :
             /\ fs' = out.fs
             /\ last' = [Call("Write", path, fs, out) EXCEPT !.content = content]
    /\ UNCHANGED <<nCalls, open, loop, proc>>

\* the Write succeeded and the model at once invokes Read on the same path
\* with start_line 1 and an end_line; content and pre keep what was written
\* and the files before the Write
ReadBack ==
    /\ last.tool = "Write"
    /\ last.res.ok
    /\ \E n \in ReadEnds :
          \E out \in {toolRead(fs, last.path, 1, n, 0)} :
             /\ fs' = out.fs
             /\ last' = [Call("Read", last.path, last.pre, out)
                            EXCEPT !.content = last.content, !.nums = <<1, n, 0>>]
    /\ UNCHANGED <<nCalls, open, loop, proc>>

\* the Write succeeded and the model at once invokes Glob; path and pre keep
\* the path written and the files before the Write, query the pattern
GlobAfter ==
    /\ last.tool = "Write"
    /\ last.res.ok
    /\ \E pattern \in PatternsAfter, max \in MaxResultsAfter :
          \E out \in {toolGlob(fs, pattern, max)} :
             /\ fs' = out.fs
             /\ last' = [Call("Glob", last.path, last.pre, out)
                            EXCEPT !.content = last.content, !.query = pattern,
                                   !.nums = <<max>>]
    /\ UNCHANGED <<nCalls, open, loop, proc>>

InitWriteThen ==
    /\ fs \in {InitFS, BareFS}
    /\ last = [NoCall EXCEPT !.pre = fs]
    /\ nCalls = 0
    /\ open = NoOpen
    /\ loop = NoLoop
    /\ proc = NoProc

NextWriteThen == WriteFirst \/ ReadBack \/ GlobAfter

SpecWriteThen == InitWriteThen /\ [][NextWriteThen]_vars

(***************************************************************************)
(* Claims about a Write and the call that follows it (SpecWriteThen).      *)
(***************************************************************************)

\* the lines of the text c: cut at every "\n", no line after a final "\n"
C14_Lines(c) ==
    LET cut == StringsSplit(c, "\n")
    IN IF cut[Len(cut)] = <<>> THEN SubSeq(cut, 1, Len(cut) - 1) ELSE cut

\* the lines numbered from 1 and joined, as Read returns them
C14_Numbered(lines) ==
    StringsJoin([i \in 1..Len(lines) |-> NumberedLine(i, lines[i])], "\n")

\* a line without the "\r" at its end
C14_NoCR(line) ==
    IF line # <<>> /\ line[Len(line)] = "\r" THEN SubSeq(line, 1, Len(line) - 1) ELSE line

\* a Read with end_line N at least the number of lines of the content the
\* Write before it wrote
C14_ReadBackAll ==
    /\ last.tool = "Read"
    /\ last.nums[2] >= Len(C14_Lines(last.content))

RECURSIVE C15_Walk(_, _, _, _)
C15_Walk(f, cur, parts, i) ==
    IF i > Len(parts) THEN cur
    ELSE IF cur = NoNode \/ f[cur].k # "dir" THEN NoNode
    ELSE C15_Walk(f, Lookup(f, cur, parts[i]), parts, i + 1)

\* the names of the cleaned path
C15_Parts(path) == StringsSplit(FilepathClean(path), "/")

\* every ancestor directory of the path is a real directory inside the root
C15_AncestorsAreDirs(f, path) ==
    \A k \in 1..(Len(C15_Parts(path)) - 1) :
       LET d == C15_Walk(f, Root, SubSeq(C15_Parts(path), 1, k), 1)
       IN /\ d # NoNode
          /\ f[d].k = "dir"
          /\ InsideRoot(f, d)

\* the path names a regular file inside the root that holds content
C15_FileHolds(f, path, content) ==
    LET n == C15_Walk(f, Root, C15_Parts(path), 1)
    IN /\ n # NoNode
       /\ f[n].k = "file"
       /\ f[n].d = content
       /\ InsideRoot(f, n)

\* the elements of a sequence
C15_Elems(seq) == {seq[i] : i \in 1..Len(seq)}

DataManyLines == [i \in 1..(2 * (defaultMaxResults + 1)) |-> IF i % 2 = 1 THEN "b" ELSE "\n"]

FiveFS ==
    [n \in Node |->
        CASE n = Root -> DirOf((NmA :> NodeAF) @@ (NmB :> NodeEnv) @@ (NmC :> NodeGitC)
                               @@ (NmD :> NodeAPem) @@ (NmF :> NodeF))
          [] n \in {NodeAF, NodeEnv, NodeGitC, NodeAPem} -> FileOf(DataSecret)
          [] n = NodeF -> FileOf(DataManyLines)
          [] n \in {OutDir, OutFile, OutSub, OutSubF} -> InitFS[n]
          [] OTHER -> FreeNode]

InitSearch ==
    /\ fs \in {InitFS, FiveFS}
    /\ last = [NoCall EXCEPT !.pre = fs]
    /\ nCalls = 0
    /\ open = NoOpen
    /\ loop = NoLoop
    /\ proc = NoProc

\* one call of Glob, Grep or Read
NextSearch == DoGlob \/ DoGrep \/ DoRead

SpecSearch == InitSearch /\ [][NextSearch]_vars

\* two smaller repositories: the only file is a, holding the line b; the only
\* file is f, holding two lines b
OnlyAFS ==
    [n \in Node |->
        CASE n = Root -> DirOf(NmA :> NodeAF)
          [] n = NodeAF -> FileOf(DataSecret)
          [] n \in {OutDir, OutFile, OutSub, OutSubF} -> InitFS[n]
          [] OTHER -> FreeNode]

TwoLinesFS ==
    [n \in Node |->
        CASE n = Root -> DirOf(NmF :> NodeF)
          [] n = NodeF -> FileOf(<<"b", "\n", "b", "\n">>)
          [] n \in {OutDir, OutFile, OutSub, OutSubF} -> InitFS[n]
          [] OTHER -> FreeNode]

(***************************************************************************)
(* Claims about the limits of Glob, Grep and Read (SpecSearch).            *)
(***************************************************************************)

\* min(max_results, 200), with absent, zero, negative and larger values
\* meaning 200
C16_Limit(max) == IF max >= 1 /\ max <= 200 THEN max ELSE 200

\* what the call would return with no max_results given
C16_Unlimited ==
    IF last.tool = "Glob" THEN toolGlob(last.pre, last.path, 0).res.results
    ELSE toolGrep(last.pre, last.variant, last.query, last.path, 0).res.results

\* C16: for every max_results (absent, zero, negative or above 200 meaning
\* 200) Glob and Grep return at most min(max_results, 200) entries, the first
\* ones of what they would return without it, and the reported count is the
\* number of entries returned, not the number that would have matched.
C16_CountIsReturned ==
    (last.tool \in {"Glob", "Grep"} /\ last.res.ok) =>
       /\ Len(last.res.results) <= C16_Limit(last.nums[1])
       /\ Len(last.res.results) <= defaultMaxResults
       /\ last.res.count = Len(last.res.results)
       /\ Len(C16_Unlimited) >= Len(last.res.results)
       /\ last.res.results = SubSeq(C16_Unlimited, 1, Len(last.res.results))
       /\ Len(C16_Unlimited) >= C16_Limit(last.nums[1])
             => last.res.count = C16_Limit(last.nums[1])

\* Grep with max_results 1 on five files that each hold a matching line
\* returned one record and the count 1
C16_OneOfFive ==
    /\ last.tool = "Grep"
    /\ last.pre = FiveFS
    /\ last.query = <<"b">>
    /\ last.path = <<>>
    /\ last.nums = <<1>>
    /\ last.res.count = 1
    /\ last.res.results = <<<<"a", ":", "1", ":", "b">>>>
    /\ Cardinality({n \in Node : n # Root /\ InsideRoot(last.pre, n)
                                   /\ last.pre[n].k = "file"
                                   /\ StringsContains(last.pre[n].d, <<"b">>)}) = 5

\* the call of last made on the files f
C17_Again(f) ==
    CASE last.tool = "Glob" -> toolGlob(f, last.path, last.nums[1]).res
      [] last.tool = "Grep" ->
            toolGrep(f, last.variant, last.query, last.path, last.nums[1]).res
      [] last.tool = "Read" ->
            toolRead(f, last.path, last.nums[1], last.nums[2], last.nums[3]).res
      [] OTHER -> last.res

\* how many entries or lines the call of last would give on the files f if no
\* limit cut it
C17_Available(f) ==
    CASE last.tool = "Glob" ->
            Len(GlobLoop(f, FilepathGlob(f, last.path), 1, <<>>,
                         defaultMaxResults * defaultMaxResults))
      [] last.tool = "Grep" ->
            Len(GrepWalk(f, WalkCalls(f, <<".">>, Root, GrepSkipDirs(last.variant),
                                      Cardinality(Node)),
                         1, last.query, last.path, [matches |-> <<>>, opened |-> {}],
                         defaultMaxResults * defaultMaxResults).matches)
      [] last.tool = "Read" ->
            Len(ScanLines(f[C15_Walk(f, Root, C15_Parts(last.path), 1)].d))
      [] OTHER -> 0

\* the call of last on the files f is cut at its limit: max_results entries
\* are returned and more match, or max_lines lines are returned, more follow
\* and no end_line asked for the cut
C17_CutOn(f) ==
    /\ last.tool \in {"Glob", "Grep", "Read"}
    /\ C17_Again(f).ok
    /\ IF last.tool = "Read"
       THEN LET r == ReadRange(last.nums[1], last.nums[2], last.nums[3])
            IN /\ C17_Available(f) > r.end
               /\ last.nums[2] <= 0 \/ last.nums[2] > r.end
       ELSE C17_Available(f) > Len(C17_Again(f).results)

\* the Extra of the ToolResult: it holds arguments of the call alone (the
\* pattern; the query and the glob; start and the clamped end)
C17_Extra ==
    CASE last.tool = "Glob" -> <<last.path>>
      [] last.tool = "Grep" -> <<last.query, last.path>>
      [] last.tool = "Read" ->
            <<ReadRange(last.nums[1], last.nums[2], last.nums[3]).start,
              ReadRange(last.nums[1], last.nums[2], last.nums[3]).end>>
      [] OTHER -> <<>>

\* repositories on which the call of last gives the very ToolResult it gave,
\* with nothing cut
C17_Twins == {t \in {OnlyAFS, TwoLinesFS} : C17_Again(t) = last.res /\ ~C17_CutOn(t)}

\* C17 as stated: whenever Glob, Grep or Read cuts its result at a limit the
\* ToolResult reports it, so that a truncated result can be told from a
\* complete one: no repository gives the same call the same ToolResult with
\* nothing cut.
C17_TruncationReported == C17_CutOn(last.pre) => C17_Twins = {}

\* C17: whenever Glob, Grep or Read cuts its result at a limit the ToolResult
\* is a success with no error text that holds the returned part alone: for
\* Glob and Grep min(max_results, 200) entries with count their number, for
\* Read the lines start..end of the clamped span; nothing in it tells that
\* more exists.
C17_TruncationSilent ==
    C17_CutOn(last.pre) =>
       /\ last.res = C17_Again(last.pre)
       /\ last.res.ok
       /\ last.res.error = ""
       /\ last.tool \in {"Glob", "Grep"} =>
             /\ last.res.count = C16_Limit(last.nums[1])
             /\ Len(last.res.results) = last.res.count
             /\ last.res.content = <<>>
       /\ last.tool = "Read" =>
             /\ last.res.results = <<>>
             /\ last.res.count = 0
             /\ Len(StringsSplit(last.res.content, "\n")) = C17_Extra[2] - C17_Extra[1] + 1

\* Grep with max_results 1 on the five files gave the ToolResult it gives on
\* the repository whose only file is a
C17_CutLooksComplete ==
    /\ last.tool = "Grep"
    /\ last.pre = FiveFS
    /\ last.nums = <<1>>
    /\ C17_CutOn(last.pre)
    /\ C17_Available(last.pre) = 205
    /\ OnlyAFS \in C17_Twins
    /\ C17_Available(OnlyAFS) = 1

(***************************************************************************)
(* Write and Edit step by step: the open that truncates the file, then     *)
(* WriteString, which may fail after some bytes; the process may be        *)
(* terminated in between.  open holds the descriptor of the file.          *)
(***************************************************************************)

\* the node of the regular file the path names
TargetOf(f, path) == openSecure(f, path, ReadFlags).fd

\* the tool is past its truncating open of node n and has content to write
Writing(f, tool, path, pre, content, n) ==
    [fs |-> [f EXCEPT ![n] = FileOf(<<>>)],
     open |-> [NoOpen EXCEPT !.st = "writing", !.path = path, !.fd = n,
                             !.flags = IF tool = "Write" THEN WriteFlags ELSE RewriteFlags],
     last |-> [NoCall EXCEPT !.tool = tool, !.path = path, !.pre = pre,
                             !.content = content, !.res = Fail(tool, "")]]

\* the tool returned before any open for writing succeeded
Returned(tool, path, pre, out) ==
    [fs |-> out.fs, open |-> NoOpen, last |-> Call(tool, path, pre, out)]

\* toolWrite up to the return of openSecure(O_WRONLY|O_CREATE|O_TRUNC)
toolWriteOpens(f, path, content, out) ==
    IF ~out.res.ok THEN Returned("Write", path, f, out)
    ELSE Writing(out.fs, "Write", path, f, content, TargetOf(out.fs, path))

\* toolEdit up to the return of openSecure(O_WRONLY|O_TRUNC); the content to
\* write is newContent
toolEditOpens(f, path, out) ==
    IF ~out.res.ok THEN Returned("Edit", path, f, out)
    ELSE Writing(out.fs, "Edit", path, f, out.fs[TargetOf(out.fs, path)].d,
                 TargetOf(out.fs, path))

\* the model invokes Write, which runs up to its open
WriteOpens ==
    /\ last.tool = "none"
    /\ open.st = "idle"
    /\ \E path \in Paths, content \in Contents :
          \E s \in {toolWriteOpens(fs, path, content, toolWrite(fs, path, content))} :
             /\ fs' = s.fs
             /\ open' = s.open
             /\ last' = s.last
    /\ UNCHANGED <<nCalls, loop, proc>>

\* the model invokes Edit, which runs up to its second open
EditOpens ==
    /\ last.tool = "none"
    /\ open.st = "idle"
    /\ \E path \in Paths, old \in OldStrings, new \in NewStrings :
          \E s \in {toolEditOpens(fs, path, toolEdit(fs, path, old, new))} :
             /\ fs' = s.fs
             /\ open' = s.open
             /\ last' = [s.last EXCEPT !.old = old, !.new = new]
    /\ UNCHANGED <<nCalls, loop, proc>>

\* file.WriteString: all bytes are written and the tool returns its success,
\* or the write fails after k bytes and the tool returns the error
WriteString ==
    /\ open.st = "writing"
    /\ \E k \in 0..Len(last.content) :
          /\ fs' = [fs EXCEPT ![open.fd] = FileOf(SubSeq(last.content, 1, k))]
          /\ last' = [last EXCEPT !.res =
                         IF k = Len(last.content)
                         THEN Success(last.tool, last.path, <<>>, <<>>,
                                      IF last.tool = "Write" THEN k ELSE 0)
                         ELSE Fail(last.tool, "write failed")]
    /\ open' = [open EXCEPT !.st = "closed"]
    /\ UNCHANGED <<nCalls, loop, proc>>

\* the process is terminated after the open, k bytes into WriteString
Terminate ==
    /\ open.st = "writing"
    /\ \E k \in 0..Len(last.content) :
          fs' = [fs EXCEPT ![open.fd] = FileOf(SubSeq(last.content, 1, k))]
    /\ open' = [open EXCEPT !.st = "killed"]
    /\ UNCHANGED <<last, nCalls, loop, proc>>

NextWriteSteps == WriteOpens \/ EditOpens \/ WriteString \/ Terminate

SpecWriteSteps == Init /\ [][NextWriteSteps]_vars

(***************************************************************************)
(* Claims about Write and Edit step by step (SpecWriteSteps).              *)
(***************************************************************************)

\* the file written is one that existed before the call
C18_Existed == last.pre[open.fd].k = "file"

\* C18: Write and Edit are atomic for the file: when the process is
\* terminated during the operation, or the write step fails after the file
\* was opened, the file holds its complete previous content or the complete
\* new content, never an empty or partly written file.
C18_PreviousOrNew ==
    (open.st \in {"closed", "killed"} /\ C18_Existed) =>
       fs[open.fd].d \in {last.pre[open.fd].d, last.content}

\* Edit of f found its old_string once, and its WriteString failed at the
\* first byte: the tool returned an error and f is left empty
C18_EmptyAfterFailedEdit ==
    /\ open.st = "closed"
    /\ last.tool = "Edit"
    /\ last.path = PathF
    /\ ~last.res.ok
    /\ last.pre[open.fd].d = DataF
    /\ last.content # <<>>
    /\ fs[open.fd].d = <<>>

(***************************************************************************)
(* The two executables from the command line to the exit code: main of     *)
(* codex-task-executor ("executor") and main of codex-review ("review").   *)
(* loadSession, saveSession and executeReview are not among the sources:   *)
(* the session record is modelled as SessionStore of the specification     *)
(* describes it, and the review executable drives the dispatch loop above. *)
(***************************************************************************)

AlphaNumeric ==
    {"a", "b", "c", "d", "e", "f", "g", "h", "i", "j", "k", "l", "m", "n", "o", "p", "q",
     "r", "s", "t", "u", "v", "w", "x", "y", "z", "A", "B", "C", "D", "E", "F", "G", "H",
     "I", "J", "K", "L", "M", "N", "O", "P", "Q", "R", "S", "T", "U", "V", "W", "X", "Y",
     "Z", "0", "1", "2", "3", "4", "5", "6", "7", "8", "9"}

\* ^[A-Za-z0-9][A-Za-z0-9._-]{0,63}$ ; in Go $ matches at the end of the text only
safeSessionRE(s) ==
    /\ Len(s) >= 1
    /\ Len(s) <= 64
    /\ s[1] \in AlphaNumeric
    /\ \A i \in 2..Len(s) : s[i] \in AlphaNumeric \cup {".", "_", "-"}

IdA == <<"a">>
IdMarks == <<"T", "1", ".", "_", "-">>
Id64 == IdMarks \o [i \in 1..59 |-> "a"]
Id65 == IdMarks \o [i \in 1..60 |-> "a"]
IdEmpty == <<>>
IdDash == <<"-", "x">>
IdSlash == <<"a", "/", "b">>
IdNewline == <<"a", "\n">>

Ids == {IdA, Id64, Id65, IdEmpty, IdDash, IdSlash, IdNewline}

\* what the environment does to the steps of main that may fail before the session
EnvFailures == {"none", "repo root", "plan file", "sessions dir"}

\* len(os.Args) below which main prints the usage
UsageArgs(variant) == IF variant = "executor" THEN 4 ELSE 3

\* the checks of main up to the sessions directory: the first one that fails
mainChecksNoKey(variant, nArgs, id, apiKey, env) ==
    IF nArgs < UsageArgs(variant) THEN "usage"
    ELSE IF ~safeSessionRE(id) THEN "invalid id"
    ELSE IF env = "repo root" THEN "repo root"
    ELSE IF variant = "executor" /\ env = "plan file" THEN "plan file"
    ELSE IF env = "sessions dir" THEN "sessions dir"
    ELSE "ok"

mainChecks(variant, nArgs, id, apiKey, env) ==
    IF nArgs < UsageArgs(variant) THEN "usage"
    ELSE IF ~safeSessionRE(id) THEN "invalid id"
    ELSE IF apiKey = "" THEN "no api key"
    ELSE IF env = "repo root" THEN "repo root"
    ELSE IF variant = "executor" /\ env = "plan file" THEN "plan file"
    ELSE IF env = "sessions dir" THEN "sessions dir"
    ELSE "ok"

\* filepath.Join(sessionsDir, id + ".json") with the default sessions directory
sessionFile(variant, id) ==
    IF variant = "executor" THEN <<".codex-sessions", "tasks", id>>
    ELSE <<".codex-sessions", id>>

\* a session record on disk: SessionData as JSON, or bytes that are not JSON
Record(conversationID) == [kind |-> "record", conversationID |-> conversationID]
Corrupt == [kind |-> "corrupt", conversationID |-> <<>>]

\* SessionStore: the handle persisted under the file, an error when there is none
loadSession(store, file) ==
    IF file \notin DOMAIN store \/ store[file].kind # "record"
    THEN [err |-> TRUE, conversationID |-> <<>>]
    ELSE [err |-> FALSE, conversationID |-> store[file].conversationID]

\* SessionStore: persist the handle under the file
saveSession(store, file, conversationID) == (file :> Record(conversationID)) @@ store

\* the handle of the n-th conversation the remote service creates
NewConversation(n) == <<"conv", n>>

ConversationExisting == <<"conv", 0>>

\* what loadSession finds, for the record of the run
StoredAs(store, file) ==
    IF file \notin DOMAIN store THEN "missing"
    ELSE IF store[file].kind # "record" THEN "corrupt"
    ELSE IF store[file].conversationID = <<>> THEN "empty"
    ELSE "handle"

\* main had to create a conversation: createConversation and saveSession answered
mainCreated(p, file, create, save) ==
    IF create = "error"
    THEN [p EXCEPT !.pc = "exited", !.exit = 3, !.createErr = TRUE]
    ELSE [p EXCEPT !.pc = "loop", !.conversationID = NewConversation(p.nCreated + 1),
                   !.nCreated = @ + 1, !.createdNow = TRUE,
                   !.store = IF save = "ok"
                             THEN saveSession(@, file, NewConversation(p.nCreated + 1))
                             ELSE @]

\* load or create conversation
mainSessionAlwaysCreates(p, file, ld, create, save) ==
    mainCreated(p, file, create, save)

mainSession(p, file, ld, create, save) ==
    IF ld.err \/ ld.conversationID = <<>>
    THEN mainCreated(p, file, create, save)
    ELSE [p EXCEPT !.pc = "loop", !.conversationID = ld.conversationID]

MaxRuns == 2

\* the inputs main reads, in the order it reads them; what it never reads is not drawn
IdsRead(variant, nArgs) == IF nArgs < UsageArgs(variant) THEN {IdEmpty} ELSE Ids

KeysRead(variant, nArgs, id) ==
    IF mainChecks(variant, nArgs, id, "sk", "none") = "ok" THEN {"", "sk"} ELSE {""}

EnvRead(variant, nArgs, id, apiKey) ==
    IF mainChecks(variant, nArgs, id, apiKey, "none") = "ok" THEN EnvFailures ELSE {"none"}

MaxItersRead(variant, nArgs, id, apiKey, env) ==
    IF mainChecks(variant, nArgs, id, apiKey, env) = "ok" THEN 0..1 ELSE {0}

\* the state of main after its checks
mainStarted(p, variant, nArgs, id, apiKey, env, maxIters, check) ==
    [p EXCEPT !.pc = IF check = "ok" THEN "session" ELSE "exited",
              !.exit = IF check = "ok" THEN -1 ELSE 2,
              !.variant = variant, !.nArgs = nArgs, !.id = id, !.apiKey = apiKey,
              !.env = env, !.maxIters = maxIters, !.stored = "none",
              !.conversationID = <<>>, !.createdNow = FALSE, !.createErr = FALSE,
              !.runs = @ + 1]

\* the process starts and runs the checks of main before the session
Start ==
    /\ proc.pc \in {"idle", "exited"}
    /\ proc.runs < MaxRuns
    /\ \E variant \in Variants, nArgs \in 2..4 :
          \E id \in IdsRead(variant, nArgs) :
             \E apiKey \in KeysRead(variant, nArgs, id) :
                \E env \in EnvRead(variant, nArgs, id, apiKey) :
                   \E maxIters \in MaxItersRead(variant, nArgs, id, apiKey, env) :
                      proc' = mainStarted(proc, variant, nArgs, id, apiKey, env, maxIters,
                                          mainChecks(variant, nArgs, id, apiKey, env))
    /\ loop' = NoLoop
    /\ UNCHANGED <<fs, last, nCalls, open>>

\* main loads or creates the conversation and enters the loop
Session ==
    /\ proc.pc = "session"
    /\ \E create \in {"ok", "error"}, save \in {"ok", "error"} :
          \E p \in {mainSession([proc EXCEPT !.stored =
                                    StoredAs(proc.store, sessionFile(proc.variant, proc.id))],
                                sessionFile(proc.variant, proc.id),
                                loadSession(proc.store, sessionFile(proc.variant, proc.id)),
                                create, save)} :
             /\ proc' = p
             /\ loop' = IF p.pc = "loop"
                        THEN [NoLoop EXCEPT !.st = "AwaitingModel",
                                            !.maxIters = proc.maxIters,
                                            !.inputItems = <<UserMessage>>,
                                            !.conversationID = p.conversationID]
                        ELSE loop
    /\ UNCHANGED <<fs, last, nCalls, open>>

\* the loop returned: main returns, or prints the error and exits with 3
Exit ==
    /\ proc.pc = "loop"
    /\ loop.st \in {"Complete", "Failed", "Aborted"}
    /\ proc' = [proc EXCEPT !.pc = "exited",
                            !.exit = IF loop.st = "Complete" THEN 0 ELSE 3]
    /\ UNCHANGED <<fs, last, nCalls, open, loop>>

\* records found on disk at the first run
StoreLeftOver ==
    (sessionFile("executor", IdA) :> Record(<<>>))
    @@ (sessionFile("review", IdA) :> Corrupt)
    @@ (sessionFile("executor", Id64) :> Record(ConversationExisting))

InitMain ==
    /\ fs = InitFS
    /\ last = NoCall
    /\ nCalls = 0
    /\ open = NoOpen
    /\ loop = NoLoop
    /\ proc \in {NoProc, [NoProc EXCEPT !.store = StoreLeftOver]}

NextMain == Start \/ Session \/ Turn \/ Abort \/ Exit

SpecMain == InitMain /\ [][NextMain]_vars

(***************************************************************************)
(* Claims about the exit codes and the session record                      *)
(***************************************************************************)

\* the identifiers of Ids that match ^[A-Za-z0-9][A-Za-z0-9._-]{0,63}$
C19_Matching == {IdA, Id64}

\* too few arguments, an identifier that does not match, or no API credential
C19_ConfigError ==
    \/ proc.variant = "executor" /\ proc.nArgs < 4
    \/ proc.variant = "review" /\ proc.nArgs < 3
    \/ proc.id \notin C19_Matching
    \/ proc.apiKey = ""

\* C19: a run given too few arguments, an identifier that does not match the
\* pattern, or no API credential has exited with code 2 and has created no
\* conversation, made no model call and run no tool; a run that failed to
\* create the conversation, whose model call failed or that reached the
\* iteration ceiling exits with code 3; a run exits with code 0 only when the
\* loop reached Complete.
C19_ExitCodes ==
    /\ proc.pc # "idle" /\ C19_ConfigError
          => /\ proc.pc = "exited"
             /\ proc.exit = 2
             /\ ~proc.createdNow
             /\ loop.modelCalls = 0
             /\ loop.toolRuns = 0
    /\ proc.pc = "exited" /\ (proc.createErr \/ loop.st \in {"Failed", "Aborted"})
          => proc.exit = 3
    /\ proc.pc = "exited" /\ proc.exit = 0 => loop.st = "Complete"

\* the second run has a matching identifier and no credential, after a first
\* run that created a conversation and ran tools
C19_NoCredentialAfterGoodRun ==
    /\ proc.pc = "exited"
    /\ proc.exit = 2
    /\ proc.runs = 2
    /\ proc.nArgs = 4
    /\ proc.id = Id64
    /\ proc.apiKey = ""
    /\ proc.nCreated = 1

\* the record of the run's identifier
C20_Record == proc.store[sessionFile(proc.variant, proc.id)]

\* the run found a non-empty handle: it created no conversation and every
\* model request carried the stored handle
C20_StoredIsCarried ==
    proc.stored = "handle"
       => /\ ~proc.createdNow
          /\ C20_Record = Record(proc.conversationID)
          /\ \A i \in 1..Len(loop.carried) : loop.carried[i] = C20_Record.conversationID

\* a conversation is created only when no handle is stored
C20_CreatedOnlyWithoutHandle ==
    proc.createdNow => proc.stored \in {"missing", "corrupt", "empty"}

\* the store changes only by saving the handle created now under the identifier
C20_SavedOnlyWhenCreated ==
    proc'.store # proc.store
       => /\ proc'.createdNow
          /\ proc'.stored \in {"missing", "corrupt", "empty"}
          /\ proc'.store = saveSession(proc.store, sessionFile(proc.variant, proc.id),
                                       proc'.conversationID)
          /\ proc'.conversationID # <<>>

\* C20: when the session record of the identifier holds a non-empty handle the
\* run creates no conversation and every model request of the run carries the
\* stored handle; a conversation is created, and its handle saved under the
\* identifier, only when no handle is stored for it.
C20_SameIdentifierSameConversation ==
    /\ [](C20_StoredIsCarried /\ C20_CreatedOnlyWithoutHandle)
    /\ [][C20_SavedOnlyWhenCreated]_vars

\* the second run found the handle the first run created and saved, and sent
\* a model request with it
C20_SecondRunContinues ==
    /\ proc.runs = 2
    /\ proc.stored = "handle"
    /\ proc.nCreated = 1
    /\ proc.conversationID = NewConversation(1)
    /\ Len(loop.carried) >= 1
    /\ loop.carried[1] = NewConversation(1)

(***************************************************************************)
(* codex-review: the read-only executeTool, called any number of times     *)
(***************************************************************************)

\* executeTool of codex-review (READ-ONLY tools)
executeToolReviewWrites(f, toolName, args) ==
    CASE toolName = "Glob" ->
            toolGlob(f, StrArg(args, "pattern"), NumArg(args, "max_results"))
      [] toolName = "Read" ->
            toolRead(f, StrArg(args, "path"), NumArg(args, "start_line"),
                     NumArg(args, "end_line"), NumArg(args, "max_lines"))
      [] toolName = "Grep" ->
            toolGrep(f, "review", StrArg(args, "query"), StrArg(args, "glob"),
                     NumArg(args, "max_results"))
      [] toolName = "Write" ->
            toolWrite(f, StrArg(args, "path"), StrArg(args, "content"))
      [] OTHER -> Out(f, Fail("", "Unknown tool"), {}, {})

executeToolReview(f, toolName, args) ==
    CASE toolName = "Glob" ->
            toolGlob(f, StrArg(args, "pattern"), NumArg(args, "max_results"))
      [] toolName = "Read" ->
            toolRead(f, StrArg(args, "path"), NumArg(args, "start_line"),
                     NumArg(args, "end_line"), NumArg(args, "max_lines"))
      [] toolName = "Grep" ->
            toolGrep(f, "review", StrArg(args, "query"), StrArg(args, "glob"),
                     NumArg(args, "max_results"))
      [] OTHER -> Out(f, Fail("", "Unknown tool"), {}, {})

\* the tool names a response may carry
ToolNames == {"Glob", "Grep", "Read", "Write", "Edit", "Delete"}

\* the argument texts a response may carry, those that parse
ReviewArgs ==
    {ArgsReadF, ArgsReadUp, ArgsReadEnv, ArgsReadMissing, ArgsEditAmbiguous, ArgsEditAF,
     ArgsWriteNew, ArgsReadNew, ArgsGlobAll, ArgsGrepB, ArgsNumbers, ArgsEmpty}

\* bound: tool calls of one review
MaxReviewCalls == 2

\* the review model invokes a tool by name
ReviewCall ==
    /\ nCalls < MaxReviewCalls
    /\ \E toolName \in ToolNames, argsStr \in ReviewArgs :
          \E out \in {executeToolReview(fs, toolName, JsonUnmarshal(argsStr).args)} :
             /\ fs' = out.fs
             /\ last' = [Call(toolName, argsStr, fs, out) EXCEPT !.variant = "review"]
    /\ nCalls' = nCalls + 1
    /\ UNCHANGED <<open, loop, proc>>

InitReview ==
    /\ fs = InitFS
    /\ last = NoCall
    /\ nCalls = 0
    /\ open = NoOpen
    /\ loop = NoLoop
    /\ proc = NoProc

NextReview == ReviewCall

SpecReview == InitReview /\ [][NextReview]_vars

\* C21: in codex-review, whatever tools were called, the tree is what it was
\* at the start, and a call of a tool other than Glob, Grep and Read (Write
\* and Edit among them) returned the failed result 'Unknown tool'.
C21_ReviewIsReadOnly ==
    /\ fs = InitFS
    /\ last.tool \in ToolNames \ {"Glob", "Grep", "Read"}
          => /\ ~last.res.ok
             /\ last.res.error = "Unknown tool"
             /\ last.sys = {}

\* the second call is a Write of a new file with content: it is refused
C21_WriteRefused ==
    /\ nCalls = 2
    /\ last.tool = "Write"
    /\ last.path = ArgsWriteNew
    /\ ~last.res.ok

(***************************************************************************)
(* Claims about Write, Read ranges and createParentDirs                    *)
(***************************************************************************)

\* the bytes of the file the path names
C22_Bytes(f, path) == f[TargetOf(f, path)].d

\* C22: after a successful Write the file at the path holds exactly the
\* content given, whatever it held before, the result reports the length of
\* the content as the bytes written, and the same Write made again succeeds
\* and leaves every file as it is.
C22_WriteReplacesContent ==
    (last.tool = "Write" /\ last.res.ok) =>
       /\ TargetOf(fs, last.path) # NoNode
       /\ fs[TargetOf(fs, last.path)].k = "file"
       /\ C22_Bytes(fs, last.path) = last.content
       /\ last.res.bytes = Len(last.content)
       /\ toolWrite(fs, last.path, last.content).res.ok
       /\ toolWrite(fs, last.path, last.content).fs = fs

\* the file f held four bytes and a Write of the one byte a succeeded
C22_ShorterContentWritten ==
    /\ last.tool = "Write"
    /\ last.res.ok
    /\ last.path = PathF
    /\ last.pre[NodeF].d = DataF
    /\ last.content = <<"a">>
    /\ fs[NodeF].d = <<"a">>

(***************************************************************************)
(* Read with every combination of its three integer arguments, on a file   *)
(* of two lines and on one of two lines more than defaultMaxReadLines.     *)
(***************************************************************************)

\* the file f holds the lines 1, 2, ..., defaultMaxReadLines + 2
DataNumbered ==
    StringsJoin([i \in 1..(defaultMaxReadLines + 2) |-> Digits(i)], "\n") \o <<"\n">>

NumberedFS == [InitFS EXCEPT ![NodeF] = FileOf(DataNumbered)]

StartLines == {-1, 0, 1, 2, 3, defaultMaxReadLines, defaultMaxReadLines + 2,
               defaultMaxReadLines + 3}
EndLines == {-1, 0, 1, 2, 3, 5, defaultMaxReadLines, defaultMaxReadLines + 1,
             defaultMaxReadLines + 2, defaultMaxReadLines + 100}
MaxLinesArgs == {-1, 0, 1, 2, defaultMaxReadLines, defaultMaxReadLines + 1}

\* the model invokes Read on f with three integers
ReadLinesOfF ==
    /\ last.tool = "none"
    /\ \E startLine \in StartLines, endLine \in EndLines, maxLines \in MaxLinesArgs :
          \E out \in {toolRead(fs, PathF, startLine, endLine, maxLines)} :
             /\ fs' = out.fs
             /\ last' = [Call("Read", PathF, fs, out)
                            EXCEPT !.nums = <<startLine, endLine, maxLines>>]
    /\ UNCHANGED <<nCalls, open, loop, proc>>

InitReadLines ==
    /\ fs \in {InitFS, NumberedFS}
    /\ last = [NoCall EXCEPT !.pre = fs]
    /\ nCalls = 0
    /\ open = NoOpen
    /\ loop = NoLoop
    /\ proc = NoProc

NextReadLines == ReadLinesOfF

SpecReadLines == InitReadLines /\ [][NextReadLines]_vars

\* m, s and e of the claim, from start_line, end_line and max_lines
C23_M == IF 1 <= last.nums[3] /\ last.nums[3] <= 400 THEN last.nums[3] ELSE 400
C23_S == IF last.nums[1] >= 1 THEN last.nums[1] ELSE 1
C23_E ==
    IF last.nums[2] <= 0 THEN C23_S + C23_M - 1
    ELSE IF last.nums[2] < C23_S THEN C23_S
    ELSE IF last.nums[2] > C23_S + C23_M - 1 THEN C23_S + C23_M - 1
    ELSE last.nums[2]

\* the lines of the file read, and the lines of the content returned
C23_FileLines == ScanLines(last.pre[NodeF].d)
C23_Got == IF last.res.content = <<>> THEN <<>> ELSE StringsSplit(last.res.content, "\n")

\* the line numbers n of a file of count lines with s <= n <= e
C23_Wanted(count) == {n \in 1..count : C23_S <= n /\ n <= C23_E}

\* C23: a successful Read returns exactly the lines of the file numbered n
\* with s <= n <= e, in order, each once, where m is max_lines if it is in
\* 1..400 and 400 otherwise, s is max(start_line, 1) and e is s+m-1 if
\* end_line <= 0 and otherwise max(end_line, s) capped at s+m-1; it returns at
\* most 400 lines.
C23_ReadReturnsTheRange ==
    (last.tool = "Read" /\ last.res.ok) =>
       \A lines \in {C23_FileLines} :
          \A got \in {C23_Got} :
             /\ Len(got) = Cardinality(C23_Wanted(Len(lines)))
             /\ \A i \in 1..Len(got) :
                   /\ C23_S + i - 1 \in C23_Wanted(Len(lines))
                   /\ got[i] = NumberedLine(C23_S + i - 1, lines[C23_S + i - 1])
             /\ Len(got) <= 400
             /\ Len(got) <= C23_M

\* Read(f, start_line 3, end_line 500) on the file of 402 lines returned the
\* 400 lines 3..402
C23_FourHundredFromThree ==
    /\ last.tool = "Read"
    /\ last.res.ok
    /\ last.pre = NumberedFS
    /\ last.nums = <<3, defaultMaxReadLines + 100, 0>>
    /\ Len(C23_Got) = 400
    /\ C23_Got[400] = NumberedLine(402, Digits(402))

(***************************************************************************)
(* createParentDirs step by step, every system call interleaved with the   *)
(* changes of the tree by another process                                  *)
(***************************************************************************)

PathANF == <<"a", "/", "n", "/", "f">>
PathNAF == <<"n", "/", "a", "/", "f">>
PathFN == <<"f", "/", "n">>

\* the write targets createParentDirs is called for; each passes requireSafePath
MkdirPaths == {PathNew, PathAN, PathANF, PathNAF, PathFN, PathLinkDirNew}

\* what one system call of the walk did: the call, the directory descriptor
\* it was relative to, the name, what the name led to before the call, the
\* errno, the node opened or made, whether that node lay below the root right
\* after the call and whether it lay outside of the repository
MkdirHop(op, f, cur, name, r) ==
    [op |-> op, from |-> cur, name |-> name,
     found |-> IF Lookup(f, cur, name) = NoNode THEN "nothing"
               ELSE f[Lookup(f, cur, name)].k,
     err |-> r.err,
     node |-> IF r.err # SysOk THEN NoNode
              ELSE IF op = "mkdirat" THEN Lookup(r.fs, cur, name) ELSE r.fd,
     via |-> r.via,
     inside |-> IF r.err # SysOk THEN FALSE
                ELSE InsideRoot(r.fs, IF op = "mkdirat" THEN Lookup(r.fs, cur, name)
                                      ELSE r.fd),
     outside |-> IF r.err # SysOk THEN FALSE
                 ELSE OutsideRoot(r.fs, IF op = "mkdirat" THEN Lookup(r.fs, cur, name)
                                        ELSE r.fd)]

\* createParentDirs at the openat of component o.i, which gave r
createParentDirsTried(f, o, r) ==
    IF r.err = SysOk
    THEN [o EXCEPT !.i = @ + 1, !.cur = r.fd,
                   !.chain = Append(@, MkdirHop("openat", f, o.cur, o.parts[o.i], r))]
    ELSE [o EXCEPT !.st = "making",
                   !.chain = Append(@, MkdirHop("openat", f, o.cur, o.parts[o.i], r))]

\* createParentDirs at the mkdirat of component o.i, which gave r
createParentDirsMkdir(f, o, r) ==
    IF r.err # SysOk
    THEN [o EXCEPT !.st = "failed", !.err = "mkdirat",
                   !.chain = Append(@, MkdirHop("mkdirat", f, o.cur, o.parts[o.i], r))]
    ELSE [o EXCEPT !.st = "made",
                   !.chain = Append(@, MkdirHop("mkdirat", f, o.cur, o.parts[o.i], r))]

\* createParentDirs at the openat of the directory it made, which gave r
createParentDirsReopened(f, o, r) ==
    IF r.err # SysOk
    THEN [o EXCEPT !.st = "failed", !.err = "openat after mkdir",
                   !.chain = Append(@, MkdirHop("reopen", f, o.cur, o.parts[o.i], r))]
    ELSE [o EXCEPT !.st = "walking", !.i = @ + 1, !.cur = r.fd,
                   !.chain = Append(@, MkdirHop("reopen", f, o.cur, o.parts[o.i], r))]

\* createParentDirs is called: filepath.Dir, the open of the root, strings.Split
MkdirCall ==
    /\ open.st = "idle"
    /\ \E path \in MkdirPaths :
          open' = IF FilepathDir(path) = <<".">> \/ FilepathDir(path) = <<>>
                  THEN [open EXCEPT !.st = "returned", !.path = path, !.cur = Root]
                  ELSE [open EXCEPT !.st = "walking", !.path = path, !.i = 1, !.cur = Root,
                                    !.parts = StringsSplit(FilepathToSlash(FilepathDir(path)),
                                                           "/")]
    /\ UNCHANGED <<fs, last, nCalls, loop, proc>>

\* the next system call of createParentDirs, or the end of its loop
MkdirStep ==
    /\ open.st \in {"walking", "making", "made"}
    /\ IF open.st = "walking" /\ open.i > Len(open.parts)
       THEN /\ fs' = fs
            /\ open' = [open EXCEPT !.st = "returned"]
       ELSE IF open.st = "walking" /\ open.parts[open.i] \in {<<>>, <<".">>}
       THEN /\ fs' = fs
            /\ open' = [open EXCEPT !.i = @ + 1]
       ELSE IF open.st = "walking" /\ open.parts[open.i] = <<".", ".">>
       THEN /\ fs' = fs
            /\ open' = [open EXCEPT !.st = "failed", !.err = "parent traversal in mkdir"]
       ELSE IF open.st = "walking"
       THEN \E r \in {Openat(fs, open.cur, open.parts[open.i], DirFlags)} :
               /\ fs' = r.fs
               /\ open' = createParentDirsTried(fs, open, r)
       ELSE IF open.st = "making"
       THEN \E r \in {Mkdirat(fs, open.cur, open.parts[open.i])} :
               /\ fs' = r.fs
               /\ open' = createParentDirsMkdir(fs, open, r)
       ELSE \E r \in {Openat(fs, open.cur, open.parts[open.i], DirFlags)} :
               /\ fs' = r.fs
               /\ open' = createParentDirsReopened(fs, open, r)
    /\ UNCHANGED <<last, nCalls, loop, proc>>

NextMkdir == MkdirCall \/ MkdirStep \/ AdvSymlink \/ AdvSwap

SpecMkdir == Init /\ [][NextMkdir]_vars

\* the directory descriptor the k-th system call of the walk has to be
\* relative to: the root, or the directory the last openat before it opened
RECURSIVE C24_Held(_, _)
C24_Held(chain, k) ==
    IF k = 1 THEN Root
    ELSE IF chain[k - 1].op \in {"openat", "reopen"} /\ chain[k - 1].err = SysOk
    THEN chain[k - 1].node
    ELSE C24_Held(chain, k - 1)

\* every system call is relative to the directory opened before it; an
\* openat that succeeded opened a real directory, no link followed; mkdirat
\* is called only for a name whose openat failed
C24_WalksByHandle ==
    \A k \in 1..Len(open.chain) :
       /\ open.chain[k].from = C24_Held(open.chain, k)
       /\ (open.chain[k].op \in {"openat", "reopen"} /\ open.chain[k].err = SysOk)
             => /\ open.chain[k].via = "real"
                /\ open.chain[k].found = "dir"
       /\ open.chain[k].op = "mkdirat"
             => /\ k > 1
                /\ open.chain[k - 1].op = "openat"
                /\ open.chain[k - 1].err # SysOk
                /\ open.chain[k - 1].name = open.chain[k].name
       /\ open.chain[k].op = "reopen"
             => /\ k > 1
                /\ open.chain[k - 1].op = "mkdirat"
                /\ open.chain[k - 1].err = SysOk

\* a component found to be a symlink or a regular file, at the first openat
\* or at the openat that follows the mkdirat, ends the call with an error and
\* no system call after it succeeds
C24_FailsClosed ==
    \A k \in 1..Len(open.chain) :
       open.chain[k].found \in {"link", "file"} =>
          /\ \A j \in k..Len(open.chain) : open.chain[j].err # SysOk
          /\ open.st \in {"making", "failed"}
          /\ open.chain[k].op = "reopen" => open.st = "failed"

\* every directory mkdirat made lay below the root when it was made
C24_NoDirectoryOutside ==
    \A k \in 1..Len(open.chain) :
       (open.chain[k].op = "mkdirat" /\ open.chain[k].err = SysOk) => open.chain[k].inside

\* C24: createParentDirs walks the ancestors one component at a time relative
\* to the directory handle opened before, descends an existing real
\* directory, makes a missing component and opens it without following a
\* symlink, fails without making anything at or below a component that is a
\* symlink or a regular file, also when the component is replaced by a
\* symlink between the mkdirat and the openat; and no directory is made
\* outside the root.
C24_CreatesOnlyInsideRoot ==
    /\ C24_WalksByHandle
    /\ C24_FailsClosed
    /\ C24_NoDirectoryOutside

\* createParentDirs made a directory in the tree outside of the repository
C24_DirectoryMadeOutside ==
    \E k \in 1..Len(open.chain) :
       /\ open.chain[k].op = "mkdirat"
       /\ open.chain[k].err = SysOk
       /\ open.chain[k].outside
       /\ ~open.chain[k].inside
       /\ OutsideRoot(fs, open.chain[k].node)

\* the matches the loop of toolGlob calls os.Stat on: those it reaches before
\* results holds limit entries (n counts the entries kept so far)
RECURSIVE GlobStatCalls(_, _, _, _, _)
GlobStatCalls(f, matches, i, n, limit) ==
    IF i > Len(matches) \/ n >= limit THEN {}
    ELSE {matches[i]}
         \cup GlobStatCalls(f, matches, i + 1,
                            IF GlobKeeps(f, matches[i]) THEN n + 1 ELSE n, limit)

\* the relPaths walkFn of toolGrep is called with, each after an lstat by
\* filepath.Walk
GrepWalked(f, variant) ==
    LET calls == WalkCalls(f, <<".">>, Root, GrepSkipDirs(variant), Cardinality(Node))
    IN  {GrepRelPath(calls[i].path) : i \in 1..Len(calls)}

\* the last call is a Glob whose pattern, or a Grep with a query whose glob
\* filter, matches the denylist
C25_DeniedPattern ==
    /\ last.tool \in {"Glob", "Grep"}
    /\ last.tool = "Grep" => last.query # <<>>
    /\ last.path # <<>>
    /\ isDeniedPath(last.path)

\* C25: Glob called with a pattern, and Grep called with a glob filter, that
\* itself matches the denylist fails with a denial before any filesystem
\* call: no chdir, no glob expansion, no tree walk, no stat of the denied
\* path.
C25_DeniedPatternShortCircuits ==
    C25_DeniedPattern =>
        /\ ~last.res.ok
        /\ last.sys = {}
        /\ last.rd = {}

\* Glob of the pattern .env on a root that holds .env succeeds with no
\* result after chdir, the expansion and os.Stat of .env
C25_GlobEnvStatsEnv ==
    /\ last.tool = "Glob"
    /\ last.path = PathEnv
    /\ Lookup(last.pre, Root, NmEnv) = NodeEnv
    /\ last.res.ok
    /\ last.res.results = <<>>
    /\ {"chdir", "glob", "stat"} \subseteq last.sys
    /\ FilepathGlob(last.pre, PathEnv) = <<PathEnv>>
    /\ PathEnv \in GlobStatCalls(last.pre, FilepathGlob(last.pre, PathEnv), 1, 0,
                                 ResultLimit(last.nums[1]))

\* Grep (query b) with the glob filter .env on a root that holds .env succeeds
\* with no result after chdir and the walk of the tree, .env included
C25_GrepEnvWalksEnv ==
    /\ last.tool = "Grep"
    /\ last.path = PathEnv
    /\ last.query = <<"b">>
    /\ last.res.ok
    /\ last.res.results = <<>>
    /\ {"chdir", "walk", "lstat"} \subseteq last.sys
    /\ PathEnv \in GrepWalked(last.pre, last.variant)

\* C26: every path of a Glob result names a regular file, neither a
\* directory nor a symlink; a candidate that is a symlink is left out even
\* when its target is a regular file inside the root.
C26_GlobListsRegularFilesOnly ==
    (last.tool = "Glob" /\ last.res.ok) =>
        \A i \in 1..Len(last.res.results) :
           \A n \in {OsLstat(last.pre, last.res.results[i])} :
              /\ n # NoNode
              /\ last.pre[n].k = "file"

\* Glob lists i, a symlink of the root whose target is the regular file f of
\* the root
C26_GlobListsSymlink ==
    /\ last.tool = "Glob"
    /\ last.res.ok
    /\ \E k \in 1..Len(last.res.results) : last.res.results[k] = NmI
    /\ OsLstat(last.pre, NmI) = LinkInFile
    /\ last.pre[LinkInFile].k = "link"
    /\ OsStat(last.pre, NmI) = NodeF
    /\ InsideRoot(last.pre, NodeF)

\* every path of a Glob result resolves, links followed, to something inside
\* the root that is no directory
C26_GlobListsFilesBehindLinks ==
    (last.tool = "Glob" /\ last.res.ok) =>
        \A i \in 1..Len(last.res.results) :
           \A n \in {OsStat(last.pre, last.res.results[i])} :
              /\ n # NoNode
              /\ last.pre[n].k = "file"
              /\ InsideRoot(last.pre, n)

\* the start positions at which sub matches s
C27_Positions(s, sub) ==
    {i \in 1..(Len(s) - Len(sub) + 1) : SubSeq(s, i, i + Len(sub) - 1) = sub}

\* C27: Edit fails with the 'not unique' error whenever old_string matches
\* the content it read at two or more start positions, overlapping matches
\* included, and succeeds only when old_string matches at exactly one
\* position.
C27_EditNeedsOneSite ==
    (last.tool = "Edit" /\ last.old # <<>>) =>
        \A r \in last.rd :
           \A sites \in {C27_Positions(last.pre[r.node].d, last.old)} :
              /\ Cardinality(sites) >= 2 =>
                    /\ ~last.res.ok
                    /\ last.res.error = "old_string appears N times (must be unique)"
              /\ last.res.ok => Cardinality(sites) = 1

\* Edit(a/f, old aa) on the content aaa succeeds: aa matches at positions 1
\* and 2, and the match at position 1 is replaced
C27_AmbiguousEditApplied ==
    /\ last.tool = "Edit"
    /\ last.path = PathAF
    /\ last.old = <<"a", "a">>
    /\ last.pre[NodeAF].d = <<"a", "a", "a">>
    /\ C27_Positions(last.pre[NodeAF].d, last.old) = {1, 2}
    /\ last.res.ok
    /\ fs[NodeAF].d = last.new \o <<"a">>

\* Edit fails as not unique exactly when strings.Count, which resumes after
\* the end of each match, finds more than one match, and succeeds only when
\* it finds one
C27_EditNeedsOneCountedMatch ==
    (last.tool = "Edit" /\ last.old # <<>>) =>
        \A r \in last.rd :
           \A count \in {StringsCount(last.pre[r.node].d, last.old)} :
              /\ count >= 2 <=>
                    last.res.error = "old_string appears N times (must be unique)"
              /\ last.res.ok => count = 1

(***************************************************************************)
(* Edit in its steps: the checks and the read of the content, the second   *)
(* openSecure (O_WRONLY|O_TRUNC), WriteString.  Another process may change *)
(* the tree before the call and between the read and the second open.      *)
(***************************************************************************)

\* toolEdit reaches its second openSecure: every check up to strings.Count
\* passed
toolEditReads(f, path, oldString, o) ==
    /\ requireSafePath(path) = ErrNone
    /\ ~isDeniedPath(path)
    /\ oldString # <<>>
    /\ o.err = SysOk
    /\ f[o.fd].k = "file"
    /\ StringsContains(f[o.fd].d, oldString)
    /\ ~EditNotUnique(StringsCount(f[o.fd].d, oldString))

\* the model invokes Edit, which returns a failure or holds newContent
EditReads ==
    /\ last.tool = "none"
    /\ open.st = "idle"
    /\ \E path \in Paths, old \in OldStrings, new \in NewStrings :
          \E o \in {openSecure(fs, path, ReadFlags)} :
             IF toolEditReads(fs, path, old, o)
             THEN /\ last' = [NoCall EXCEPT !.tool = "Edit", !.path = path, !.pre = fs,
                                            !.old = old, !.new = new,
                                            !.content = StringsReplace1(fs[o.fd].d, old, new),
                                            !.sys = {"open", "fstat", "read"},
                                            !.rd = {ReadOf(path, o.fd)},
                                            !.res = Fail("Edit", "")]
                  /\ open' = [open EXCEPT !.st = "read", !.path = path, !.fd = o.fd]
             ELSE /\ \E out \in {toolEdit(fs, path, old, new)} :
                        last' = [Call("Edit", path, fs, out) EXCEPT !.old = old, !.new = new]
                  /\ open' = [open EXCEPT !.st = "closed"]
    /\ UNCHANGED <<fs, nCalls, loop, proc>>

\* the second openSecure of toolEdit: refused, and toolEdit returns; or the
\* file is open for writing, truncated
EditReopens ==
    /\ open.st = "read"
    /\ \E w \in {openSecure(fs, last.path, RewriteFlags)} :
          IF w.err # SysOk
          THEN /\ \E out \in {toolEditWritten(last.path, last.rd, last.content, w)} :
                     /\ fs' = out.fs
                     /\ last' = [last EXCEPT !.res = out.res, !.sys = out.sys]
               /\ open' = [open EXCEPT !.st = "closed"]
          ELSE /\ fs' = [w.fs EXCEPT ![w.fd] = FileOf(<<>>)]
               /\ last' = last
               /\ open' = [open EXCEPT !.st = "writing", !.fd = w.fd, !.flags = RewriteFlags]
    /\ UNCHANGED <<nCalls, loop, proc>>

NextEditSteps == EditReads \/ AdvSymlink \/ EditReopens \/ WriteString

SpecEditSteps == Init /\ [][NextEditSteps]_vars

\* Edit returned a failure other than that of WriteString
C28_Refused ==
    /\ last.tool = "Edit"
    /\ open.st = "closed"
    /\ ~last.res.ok
    /\ last.res.error # "write failed"

\* C28: when Edit fails because the path is invalid or denied, old_string
\* is empty, the file is absent or no regular file, old_string is not found
\* or not unique, or the reopen for writing is refused, every file under the
\* root, the target included, holds the bytes it held before the call.
C28_FailedEditChangesNothing ==
    C28_Refused =>
        /\ \A n \in Node :
              (last.pre[n].k = "file" \/ fs[n].k = "file") => fs[n] = last.pre[n]
        /\ open.moves = 0 => fs = last.pre

\* the second open of Edit was refused after the file it had read was
\* replaced by a symbolic link; the file holds what it held
C28_ReopenRefused ==
    /\ C28_Refused
    /\ last.res.error = "open for write failed"
    /\ \E r \in last.rd :
          /\ last.pre[r.node].k = "file"
          /\ fs[r.node].d = last.pre[r.node].d
          /\ fs[r.node].d # last.content

(***************************************************************************)
(* Grep on a repository of three entries a, m (or k.PEM) and z, walked in  *)
(* this order; a and z are small files, the entry between them is a file   *)
(* Grep cannot use.                                                        *)
(***************************************************************************)

NmM == <<"m">>
NmZ == <<"z">>
DataZ == <<"b", "\n", "a", "b">>

\* the kinds of the entry between a and z
BadKinds == {"big", "denied", "link", "sock", "longline"}

\* a file of more than maxGrepFileSize bytes that holds a line b
DataBig == <<Run, "\n", Run, "\n", "b">>
\* a file below maxGrepFileSize whose second line the scanner cannot hold
DataLongLine == <<"b", "\n", Run, "\n", "b">>

BadFS(kind) ==
    [n \in Node |->
        CASE n = Root ->
                DirOf((NmA :> NodeAF) @@ (NmZ :> NodeF)
                      @@ (CASE kind = "denied" -> (NmPem :> NodeAPem)
                            [] kind = "link" -> (NmM :> LinkInFile)
                            [] OTHER -> (NmM :> NodeEnv)))
          [] n = NodeAF -> FileOf(DataSecret)
          [] n = NodeF -> FileOf(DataZ)
          [] n = NodeAPem -> IF kind = "denied" THEN FileOf(DataSecret) ELSE FreeNode
          [] n = LinkInFile -> IF kind = "link" THEN LinkNode ELSE FreeNode
          [] n = NodeEnv ->
                CASE kind = "big" -> FileOf(DataBig)
                  [] kind = "sock" -> SockNode
                  [] kind = "longline" -> FileOf(DataLongLine)
                  [] OTHER -> FreeNode
          [] n \in {OutDir, OutFile, OutSub, OutSubF} -> InitFS[n]
          [] OTHER -> FreeNode]

InitGrepBad ==
    /\ fs \in {BadFS(kind) : kind \in BadKinds}
    /\ last = [NoCall EXCEPT !.pre = fs]
    /\ nCalls = 0
    /\ open = NoOpen
    /\ loop = NoLoop
    /\ proc = NoProc

NextGrepBad == DoGrep

SpecGrepBad == InitGrepBad /\ [][NextGrepBad]_vars

\* the bytes of the file are cut at every "\n"
C29_Lines(bytes) == StringsSplit(bytes, "\n")

\* the records of the matching lines of the file at relPath, for the glob
\* filter and the query of the call
C29_Records(relPath, bytes, glob, query) ==
    IF glob # <<>> /\ ~FilepathMatch(glob, relPath) THEN {}
    ELSE {GrepRecord(relPath, i, C29_Lines(bytes)[i]) :
             i \in {j \in 1..Len(C29_Lines(bytes)) :
                       StringsContains(C29_Lines(bytes)[j], query)}}

\* the records of the matching lines of a and z, the files next to the one
\* Grep cannot use
C29_OtherFiles(glob, query) ==
    C29_Records(NmA, DataSecret, glob, query) \cup C29_Records(NmZ, DataZ, glob, query)

\* the records Grep may return of the file it cannot use: the matching lines
\* before the line the scanner cannot hold
C29_OfBadFile(f) ==
    IF f = BadFS("longline") THEN {GrepRecord(NmM, 1, <<"b">>)} ELSE {}

\* the walk of Grep was started: the query is not empty and the glob filter
\* passes requireSafePath
C29_Walked ==
    /\ last.tool = "Grep"
    /\ last.query # <<>>
    /\ last.path # <<>> => requireSafePath(last.path) = ErrNone

\* C29: a file Grep cannot use (above 2 MB, denylisted, a symlink, not
\* openable, or with a line longer than the scan buffer) never aborts the
\* search: Grep returns ok, and every matching line of every other file of
\* the walk is returned, up to max_results.
C29_BadFileNeverAborts ==
    C29_Walked =>
        \A got \in {{last.res.results[i] : i \in 1..Len(last.res.results)}} :
           /\ last.res.ok
           /\ last.res.count = Len(last.res.results)
           /\ Len(last.res.results) <= ResultLimit(last.nums[1])
           /\ got \subseteq C29_OtherFiles(last.path, last.query) \cup C29_OfBadFile(last.pre)
           /\ \/ Len(last.res.results) = ResultLimit(last.nums[1])
              \/ C29_OtherFiles(last.path, last.query) \subseteq got

\* Grep for b walked a, a file whose second line the scanner cannot hold,
\* and z, and returned the matching lines of a and z and the line before the
\* long one
C29_LongLineBetween ==
    /\ C29_Walked
    /\ last.pre = BadFS("longline")
    /\ last.query = <<"b">>
    /\ last.path = <<>>
    /\ last.res.ok
    /\ last.res.results = <<GrepRecord(NmA, 1, <<"b">>), GrepRecord(NmM, 1, <<"b">>),
                            GrepRecord(NmZ, 1, <<"b">>), GrepRecord(NmZ, 2, <<"a", "b">>)>>

(***************************************************************************)
(* The five tools called with paths that have a drive or volume prefix in  *)
(* the Windows sense, and with a path from the POSIX root.                 *)
(***************************************************************************)

PathDrive == <<"C", ":", "/", "x">>
PathDriveRel == <<"C", ":", "x">>
PathUNC == <<"\\", "\\", "h", "\\", "s", "\\", "x">>

\* paths with a Windows drive letter or a UNC volume
DrivePaths == {PathDrive, PathDriveRel, PathUNC}

VolumePaths == DrivePaths \cup {PathAbs}

\* the model invokes one of the five tools with a path of VolumePaths; Grep
\* takes it as its glob filter
VolumeCall ==
    /\ last.tool = "none"
    /\ nCalls <= MaxCalls
    /\ \E path \in VolumePaths :
          \/ \E a \in ReadArgs : \E out \in {toolRead(fs, path, a[1], a[2], a[3])} :
                /\ fs' = out.fs
                /\ last' = [Call("Read", path, fs, out) EXCEPT !.nums = a]
          \/ \E content \in Contents : \E out \in {toolWrite(fs, path, content)} :
                /\ fs' = out.fs
                /\ last' = [Call("Write", path, fs, out) EXCEPT !.content = content]
          \/ \E old \in OldStrings, new \in NewStrings :
                \E out \in {toolEdit(fs, path, old, new)} :
                   /\ fs' = out.fs
                   /\ last' = [Call("Edit", path, fs, out) EXCEPT !.old = old, !.new = new]
          \/ \E max \in MaxResultsArgs : \E out \in {toolGlob(fs, path, max)} :
                /\ fs' = out.fs
                /\ last' = [Call("Glob", path, fs, out) EXCEPT !.nums = <<max>>]
          \/ \E variant \in Variants, query \in Queries \ {<<>>}, max \in MaxResultsArgs :
                \E out \in {toolGrep(fs, variant, query, path, max)} :
                   /\ fs' = out.fs
                   /\ last' = [Call("Grep", path, fs, out) EXCEPT !.variant = variant,
                                                                  !.query = query,
                                                                  !.nums = <<max>>]
    /\ UNCHANGED <<nCalls, open, loop, proc>>

NextVolume == VolumeCall \/ Deliver

SpecVolume == Init /\ [][NextVolume]_vars

\* C30: requireSafePath rejects every path that has a volume or drive
\* prefix, Windows-drive-like forms such as C:/x or C:x as well as
\* POSIX-root-like forms, with its own error, on whatever platform the
\* program runs; so Read, Write, Edit, Glob and Grep all fail on such a path.
C30_VolumePathsRejected ==
    (last.tool \in {"Read", "Write", "Edit", "Glob", "Grep"} /\ last.path \in VolumePaths) =>
        /\ requireSafePath(last.path) = "volume paths not allowed"
        /\ ~last.res.ok
        /\ last.res.error = "volume paths not allowed"

\* on the unix build Write of C:/x made the directory C: and the file x in it
C30_DriveFileWritten ==
    /\ last.tool = "Write"
    /\ last.path = PathDrive
    /\ requireSafePath(PathDrive) = ErrNone
    /\ last.res.ok
    /\ Lookup(last.pre, Root, <<"C", ":">>) = NoNode
    /\ Lookup(fs, Lookup(fs, Root, <<"C", ":">>), <<"x">>) # NoNode
    /\ fs[Lookup(fs, Lookup(fs, Root, <<"C", ":">>), <<"x">>)] = FileOf(last.content)

\* what the unix build does with the paths: those from the POSIX root are
\* rejected as absolute, those with a drive or a UNC volume pass requireSafePath
C30_UnixBuild ==
    (last.tool \in {"Read", "Write", "Edit", "Glob", "Grep"} /\ last.path \in VolumePaths) =>
        /\ last.path \in DrivePaths => requireSafePath(last.path) = ErrNone
        /\ last.path = PathAbs =>
              /\ ~last.res.ok
              /\ last.res.error \in {"absolute paths not allowed", "invalid glob"}
              /\ last.sys = {}
====
